---- MODULE Spec2Model ----
(***************************************************************************)
(* A state-machine model of the trustlines relay core                      *)
(* (src/src/relay/relay.py, class TrustlinesRelay): the contract registry, *)
(* the per-network graph mirror and its derived events, the push           *)
(* subscription lifecycle, and the fan-in event query.                     *)
(*                                                                         *)
(* Collaborators whose code is not part of src/ (CurrencyNetworkGraph,     *)
(* Subject, MessagingSubject, PushNotificationClient, ClientTokenDB,       *)
(* concurrency_utils.joinall, sorted_events, the proxies) are modelled     *)
(* from spec.md; every such definition says so in its comment.             *)
(***************************************************************************)
EXTENDS Integers, Sequences, FiniteSets, TLC

\* ------------------------------------------------------------------ bounds

\* Largest timestamp the clock reaches.
MaxTime == 2
\* Number of ledger events (balance, trustline, freeze, full sync) handled.
MaxEvents == 2
\* Number of proxies constructed in one behaviour.
MaxRegistrations == 4
\* Longest subscription list of one subject.
MaxSubs == 3
\* Number of contracts queried by one fan-in call.
MaxSources == 3
\* Longest per-source event sequence given to sorted_events.
MaxLen == 2
\* Number of source sequences given to sorted_events.
NumSources == 2
MaxLedgerEvents == 2
MaxFailures == 1
MaxHubSubs == 2

\* --------------------------------------------------------------- universes

\* Addresses in canonical (checksum) form.
ChecksumAddrs == {"0xC1", "0xC2"}
\* A well-formed address that is not in checksum form (lower case of 0xC1).
NonChecksumAddrs == {"0xc1"}
Addrs == ChecksumAddrs \cup NonChecksumAddrs

\* eth_utils.is_checksum_address: true of the canonical form only.
is_checksum_address(address) == address \in ChecksumAddrs

\* User (account) addresses; all in checksum form except the last.
Users == {"0xU1", "0xU2", "0xU3"}
BadUser == "0xu1"
user_is_checksum_address(address) == address \in Users

None == "None"

VARIABLES
    \* TrustlinesRelay.__init__, lines 69-85
    currency_network_proxies,  \* address -> [is_frozen, gen]
    currency_network_graphs,   \* address -> graph mirror
    shield_proxies,            \* address -> generation of the proxy object
    escrow_proxies,
    gateway_proxies,
    exchange_proxies,          \* orderbook._exchange_proxies
    unw_eth_proxies,
    token_proxies,
    known_identity_factories,  \* list of addresses
    subjects,                  \* user address -> list of subscriptions
    messaging,                 \* user address -> list of subscriptions
    firebase_raw_push_service, \* TRUE iff _firebase_raw_push_service is not None
    \* collaborators
    listeners,                 \* <<kind, address>> -> callbacks attached to the proxy
    proxies_created,           \* <<kind, address>> -> number of proxy constructions
    token_store,               \* persisted (user, token) pairs of ClientTokenDB
    valid_tokens,              \* tokens the push backend accepts right now
    started,                   \* _start_push_service has run
    now,                       \* timestamp of the latest block seen
    nevents,                   \* ledger events handled so far
    \* observation of the last operation
    call,                      \* [op, args, result] of the last operation
    emitted,                   \* events handed to _publish_user_event by it
    \* fan-in query (get_user_events / joinall)
    pc,                        \* "idle" | "waiting" | "returned"
    tasks,                     \* source -> status of its query task
    results,                   \* outputs of completed tasks, as joinall collects them
    ret,                       \* the sequence returned to the caller
    deadline,                  \* TRUE iff a timeout was given
    query_call,                \* the get_user_events call: [op, args, result]
    \* sorted_events as a pure function
    sources,                   \* per-source event sequences
    merged,                    \* sorted_events over their concatenation, or None
    \* discovery loop (_start_listen_on_new_addresses)
    manifest,                  \* the addresses file as it is on disk now
    node_up,                   \* TRUE iff the node answers proxy constructions
    loop_pc,                   \* "sleeping" | "loading" | "dead"
    todo,                      \* registrations the running pass has yet to make
    last_pass,                 \* None | "ok" | "error": how the last pass ended
    pass_manifest,             \* the manifest the last pass read
    passes,                    \* passes started so far, modulo 2
    suspended,                 \* new_network calls waiting in the proxy constructor
    \* listeners, handlers and the fan-out hub
    ledger,                    \* network -> events emitted and not yet handled
    next_id,                   \* events emitted so far
    handlers,                  \* <<network, callback>> -> the handler it runs
    applied,                   \* events applied to the mirrors, in order
    publications,              \* events published to their subjects, in order
    deliveries                 \* deliveries made to subscribers, in order

regVars == <<currency_network_proxies, currency_network_graphs, shield_proxies,
             escrow_proxies, gateway_proxies, exchange_proxies, unw_eth_proxies,
             token_proxies, known_identity_factories, listeners, proxies_created>>
pushVars == <<subjects, messaging, firebase_raw_push_service, token_store,
              valid_tokens, started>>
netVars == <<now, nevents, emitted>>
fanVars == <<pc, tasks, results, ret, deadline, query_call>>
mergeVars == <<sources, merged>>
loopVars == <<manifest, node_up, loop_pc, todo, last_pass, pass_manifest, passes, suspended>>
hubVars == <<ledger, next_id, handlers, applied, publications, deliveries>>
vars == <<regVars, pushVars, netVars, fanVars, mergeVars, loopVars, hubVars, call>>

\* ----------------------------------------------------------------- helpers

\* dict[key] = value
Put(dict, key, value) ==
    [k \in DOMAIN dict \cup {key} |-> IF k = key THEN value ELSE dict[k]]

EmptyDict == [k \in {} |-> 0]

Call(op, args, result) == [op |-> op, args |-> args, result |-> result]

\* ---------------------------------------------------------------- registry

ListenKinds == {"network", "escrow", "gateway", "shield"}
AllKinds == {"network", "shield", "escrow", "gateway", "exchange", "unw_eth",
             "token", "factory"}

\* Static configuration a CurrencyNetworkProxy reads from the contract once.
NetworkConfig(address) ==
    [capacity_imbalance_fee_divisor |-> IF address = "0xC1" THEN 100 ELSE 50,
     default_interest_rate |-> 0,
     custom_interests |-> TRUE,
     prevent_mediator_interests |-> FALSE]

\* CurrencyNetworkProxy(web3, abi, address): a fresh proxy is not frozen.
CurrencyNetworkProxy(address, gen) ==
    [is_frozen |-> FALSE, gen |-> gen, config |-> NetworkConfig(address)]

\* CurrencyNetworkGraph(...): an empty mirror holding the network's config.
CurrencyNetworkGraph(config) == [config |-> config, edges |-> EmptyDict]

network_addresses == DOMAIN currency_network_proxies
gateway_addresses == DOMAIN gateway_proxies
escrow_addresses == DOMAIN escrow_proxies
shield_addresses == DOMAIN shield_proxies
exchange_addresses == DOMAIN exchange_proxies
unw_eth_addresses == DOMAIN unw_eth_proxies
token_addresses == DOMAIN token_proxies \cup unw_eth_addresses

\* Callbacks attached by _start_listen_network, in order.
NetworkListeners == <<"full_sync", "balance", "trustline", "transfer",
                      "trustline_request", "trustline_request_cancel",
                      "network_freeze">>
EscrowListeners == <<"deposited", "withdrawn">>
GatewayListeners == <<"exchange_rate_changed">>

\* proxy.start_listen_on_*(callback) for each callback of the list
Attach(kind, address, names) ==
    [listeners EXCEPT ![<<kind, address>>] = @ \o names]

start_listen_network(address) == Attach("network", address, NetworkListeners)
start_listen_escrow(address) == Attach("escrow", address, EscrowListeners)
start_listen_gateway(address) == Attach("gateway", address, GatewayListeners)
\* the body of _start_listen_shield is commented out: nothing is attached
start_listen_shield(address) == listeners

Created(kind, address) ==
    [proxies_created EXCEPT ![<<kind, address>>] = @ + 1]

\* A failed assert: nothing but the observation changes.
AssertionFailure(op, address) ==
    /\ call' = Call(op, <<address, FALSE>>, "AssertionError")
    /\ UNCHANGED <<regVars, pushVars, netVars, fanVars, mergeVars, hubVars>>

\* new_network storing the proxy and attaching the listeners, without a graph
register_network_without_graph(address) ==
    /\ currency_network_proxies' = Put(currency_network_proxies, address,
           CurrencyNetworkProxy(address, proxies_created[<<"network", address>>] + 1))
    /\ listeners' = start_listen_network(address)
    /\ proxies_created' = Created("network", address)
    /\ call' = Call("new_network", <<address, address \in network_addresses>>, "ok")
    /\ UNCHANGED <<currency_network_graphs, shield_proxies, escrow_proxies,
                   gateway_proxies, exchange_proxies, unw_eth_proxies, token_proxies,
                   known_identity_factories>>
    /\ UNCHANGED <<pushVars, netVars, fanVars, mergeVars, hubVars>>

\* new_network past its two guards: proxy, graph mirror, listeners.
register_network(address) ==
    /\ currency_network_proxies' = Put(currency_network_proxies, address,
           CurrencyNetworkProxy(address, proxies_created[<<"network", address>>] + 1))
    /\ currency_network_graphs' = Put(currency_network_graphs, address,
           CurrencyNetworkGraph(currency_network_proxies'[address].config))
    /\ listeners' = start_listen_network(address)
    /\ proxies_created' = Created("network", address)
    /\ call' = Call("new_network", <<address, address \in network_addresses>>, "ok")
    /\ UNCHANGED <<shield_proxies, escrow_proxies, gateway_proxies,
                   exchange_proxies, unw_eth_proxies, token_proxies,
                   known_identity_factories>>
    /\ UNCHANGED <<pushVars, netVars, fanVars, mergeVars, hubVars>>

\* new_network found the address registered and returned.
already_registered(op, address) ==
    /\ call' = Call(op, <<address, TRUE>>, "ok")
    /\ UNCHANGED <<regVars, pushVars, netVars, fanVars, mergeVars, hubVars>>

\* new_network without its membership test
new_network_no_membership_test(address) ==
    IF ~is_checksum_address(address) THEN AssertionFailure("new_network", address)
    ELSE register_network(address)

\* new_network without its assertion
new_network_no_assert(address) ==
    IF address \in network_addresses
    THEN already_registered("new_network", address)
    ELSE register_network(address)

new_network(address) ==
    IF ~is_checksum_address(address) THEN AssertionFailure("new_network", address)
    ELSE IF address \in network_addresses
    THEN already_registered("new_network", address)
    ELSE register_network(address)

\* A task that is inside new_network is not called again before it returns.
InNewNetwork(task) == \E r \in suspended : r[1] = task

\* new_network up to the constructor of CurrencyNetworkProxy, which reads the
\* static configuration from the contract: the caller waits for the node
\* after the membership test and before anything is stored.
new_network_suspends(task, address) ==
    /\ ~InNewNetwork(task)
    /\ IF ~is_checksum_address(address)
       THEN AssertionFailure("new_network", address) /\ UNCHANGED suspended
       ELSE IF address \in network_addresses
       THEN already_registered("new_network", address) /\ UNCHANGED suspended
       ELSE /\ suspended' = suspended \cup {<<task, address>>}
            /\ call' = Call("new_network", <<address, FALSE>>, "suspended")
            /\ UNCHANGED <<regVars, pushVars, netVars, fanVars, mergeVars, hubVars>>
    /\ UNCHANGED <<manifest, node_up, loop_pc, todo, last_pass, pass_manifest, passes>>

\* The node has answered: new_network goes on from the constructor and
\* stores the proxy and the graph and attaches the listeners, without
\* another look at the registry.
new_network_resumes(task, address) ==
    /\ <<task, address>> \in suspended
    /\ suspended' = suspended \ {<<task, address>>}
    /\ register_network(address)
    /\ UNCHANGED <<manifest, node_up, loop_pc, todo, last_pass, pass_manifest, passes>>

new_shield(address) ==
    IF ~is_checksum_address(address) THEN AssertionFailure("new_shield", address)
    ELSE
        /\ call' = Call("new_shield", <<address, address \in shield_addresses>>, "ok")
        /\ IF address \notin shield_addresses
           THEN /\ shield_proxies' = Put(shield_proxies, address,
                       proxies_created[<<"shield", address>>] + 1)
                /\ proxies_created' = Created("shield", address)
                /\ listeners' = start_listen_shield(address)
           ELSE UNCHANGED <<shield_proxies, proxies_created, listeners>>
        /\ UNCHANGED <<currency_network_proxies, currency_network_graphs,
                       escrow_proxies, gateway_proxies, exchange_proxies,
                       unw_eth_proxies, token_proxies, known_identity_factories>>
        /\ UNCHANGED <<pushVars, netVars, fanVars, mergeVars, hubVars>>

new_escrow(address) ==
    IF ~is_checksum_address(address) THEN AssertionFailure("new_escrow", address)
    ELSE
        /\ call' = Call("new_escrow", <<address, address \in escrow_addresses>>, "ok")
        /\ IF address \notin escrow_addresses
           THEN /\ escrow_proxies' = Put(escrow_proxies, address,
                       proxies_created[<<"escrow", address>>] + 1)
                /\ proxies_created' = Created("escrow", address)
                /\ listeners' = start_listen_escrow(address)
           ELSE UNCHANGED <<escrow_proxies, proxies_created, listeners>>
        /\ UNCHANGED <<currency_network_proxies, currency_network_graphs,
                       shield_proxies, gateway_proxies, exchange_proxies,
                       unw_eth_proxies, token_proxies, known_identity_factories>>
        /\ UNCHANGED <<pushVars, netVars, fanVars, mergeVars, hubVars>>

new_gateway(address) ==
    IF ~is_checksum_address(address) THEN AssertionFailure("new_gateway", address)
    ELSE
        /\ call' = Call("new_gateway", <<address, address \in gateway_addresses>>, "ok")
        /\ IF address \notin gateway_addresses
           THEN /\ gateway_proxies' = Put(gateway_proxies, address,
                       proxies_created[<<"gateway", address>>] + 1)
                /\ proxies_created' = Created("gateway", address)
                /\ listeners' = start_listen_gateway(address)
           ELSE UNCHANGED <<gateway_proxies, proxies_created, listeners>>
        /\ UNCHANGED <<currency_network_proxies, currency_network_graphs,
                       shield_proxies, escrow_proxies, exchange_proxies,
                       unw_eth_proxies, token_proxies, known_identity_factories>>
        /\ UNCHANGED <<pushVars, netVars, fanVars, mergeVars, hubVars>>

\* OrderBookGreenlet.add_exchange(proxy): records the proxy under its address.
add_exchange(address, proxy) == Put(exchange_proxies, address, proxy)

new_exchange(address) ==
    IF ~is_checksum_address(address) THEN AssertionFailure("new_exchange", address)
    ELSE
        /\ call' = Call("new_exchange", <<address, address \in exchange_addresses>>, "ok")
        /\ IF address \notin exchange_addresses
           THEN /\ exchange_proxies' = add_exchange(address,
                       proxies_created[<<"exchange", address>>] + 1)
                /\ proxies_created' = Created("exchange", address)
           ELSE UNCHANGED <<exchange_proxies, proxies_created>>
        /\ UNCHANGED <<currency_network_proxies, currency_network_graphs,
                       shield_proxies, escrow_proxies, gateway_proxies, listeners,
                       unw_eth_proxies, token_proxies, known_identity_factories>>
        /\ UNCHANGED <<pushVars, netVars, fanVars, mergeVars, hubVars>>

new_unw_eth(address) ==
    IF ~is_checksum_address(address) THEN AssertionFailure("new_unw_eth", address)
    ELSE
        /\ call' = Call("new_unw_eth", <<address, address \in unw_eth_addresses>>, "ok")
        /\ IF address \notin unw_eth_addresses
           THEN /\ unw_eth_proxies' = Put(unw_eth_proxies, address,
                       proxies_created[<<"unw_eth", address>>] + 1)
                /\ proxies_created' = Created("unw_eth", address)
           ELSE UNCHANGED <<unw_eth_proxies, proxies_created>>
        /\ UNCHANGED <<currency_network_proxies, currency_network_graphs,
                       shield_proxies, escrow_proxies, gateway_proxies, listeners,
                       exchange_proxies, token_proxies, known_identity_factories>>
        /\ UNCHANGED <<pushVars, netVars, fanVars, mergeVars, hubVars>>

new_token(address) ==
    IF ~is_checksum_address(address) THEN AssertionFailure("new_token", address)
    ELSE
        /\ call' = Call("new_token", <<address, address \in token_addresses>>, "ok")
        /\ IF address \notin token_addresses
           THEN /\ token_proxies' = Put(token_proxies, address,
                       proxies_created[<<"token", address>>] + 1)
                /\ proxies_created' = Created("token", address)
           ELSE UNCHANGED <<token_proxies, proxies_created>>
        /\ UNCHANGED <<currency_network_proxies, currency_network_graphs,
                       shield_proxies, escrow_proxies, gateway_proxies, listeners,
                       exchange_proxies, unw_eth_proxies, known_identity_factories>>
        /\ UNCHANGED <<pushVars, netVars, fanVars, mergeVars, hubVars>>

append_known_factory(address) ==
    /\ call' = Call("new_known_factory",
                    <<address, address \in {known_identity_factories[i] :
                                              i \in 1..Len(known_identity_factories)}>>, "ok")
    /\ IF address \notin {known_identity_factories[i] :
                            i \in 1..Len(known_identity_factories)}
       THEN known_identity_factories' = Append(known_identity_factories, address)
       ELSE UNCHANGED known_identity_factories
    /\ UNCHANGED <<currency_network_proxies, currency_network_graphs,
                   shield_proxies, escrow_proxies, gateway_proxies, listeners,
                   exchange_proxies, unw_eth_proxies, token_proxies,
                   proxies_created>>
    /\ UNCHANGED <<pushVars, netVars, fanVars, mergeVars, hubVars>>

new_known_factory(address) ==
    IF ~is_checksum_address(address)
    THEN AssertionFailure("new_known_factory", address)
    ELSE append_known_factory(address)

\* ------------------------------------------------------ graph mirror
\* CurrencyNetworkGraph (relay/network_graph/graph.py) is not part of src/;
\* it is modelled from spec.md sections 3 and 4.2.

UserRank(u) == CASE u = "0xU1" -> 1 [] u = "0xU2" -> 2 [] u = "0xU3" -> 3

\* An edge is keyed by the unordered pair, stored from its first user's side.
EdgeKey(a, b) == IF UserRank(a) < UserRank(b) THEN <<a, b>> ELSE <<b, a>>

\* First touch materializes an edge with no limits, no interest, no balance.
NewEdge ==
    [creditline_given |-> 0, creditline_received |-> 0,
     interest_rate_given |-> 0, interest_rate_received |-> 0,
     balance |-> 0, last_update_timestamp |-> 0]

EdgeOf(graph, a, b) ==
    IF EdgeKey(a, b) \in DOMAIN graph.edges
    THEN graph.edges[EdgeKey(a, b)] ELSE NewEdge

\* The edge as seen from user a (given and received swap, balance negates).
ViewFrom(edge, a, b) ==
    IF EdgeKey(a, b) = <<a, b>> THEN edge
    ELSE [creditline_given |-> edge.creditline_received,
          creditline_received |-> edge.creditline_given,
          interest_rate_given |-> edge.interest_rate_received,
          interest_rate_received |-> edge.interest_rate_given,
          balance |-> -edge.balance,
          last_update_timestamp |-> edge.last_update_timestamp]

\* graph.update_balance(a, b, balance, timestamp): upserts the balance as seen
\* from a and the last update timestamp; limits and rates are kept.
update_balance(graph, a, b, value, timestamp) ==
    LET old == ViewFrom(EdgeOf(graph, a, b), a, b)
        new == [old EXCEPT !.balance = value,
                           !.last_update_timestamp = timestamp]
    IN [graph EXCEPT !.edges = Put(@, EdgeKey(a, b), ViewFrom(new, a, b))]

\* graph.update_trustline(creditor, debtor, ...): upserts limits and rates as
\* seen from the creditor; the balance and its timestamp are not touched.
update_trustline(graph, creditor, debtor, creditline_given, creditline_received, interest_rate_given, interest_rate_received) ==
    LET old == ViewFrom(EdgeOf(graph, creditor, debtor), creditor, debtor)
        new == [old EXCEPT !.creditline_given = creditline_given,
                           !.creditline_received = creditline_received,
                           !.interest_rate_given = interest_rate_given,
                           !.interest_rate_received = interest_rate_received]
    IN [graph EXCEPT !.edges =
            Put(@, EdgeKey(creditor, debtor), ViewFrom(new, creditor, debtor))]

\* graph.gen_network(graph_rep): replaces the whole edge set in one step.
gen_network(graph, graph_rep) == [graph EXCEPT !.edges = graph_rep]

\* graph.users: the addresses touching at least one edge.
users(graph) == {k[1] : k \in DOMAIN graph.edges} \cup {k[2] : k \in DOMAIN graph.edges}

\* Interest rates are in units of 1/InterestScale per time unit.
InterestScale == 100

\* Integer division truncating toward zero.
TruncDiv(x, d) == IF x >= 0 THEN x \div d ELSE -((-x) \div d)

\* Accrual over timestamp - last_update_timestamp at the rate of the balance's
\* side: the given rate for a positive balance, the received rate otherwise;
\* zero when timestamp <= last_update_timestamp.
balance_with_interests(view, timestamp) ==
    LET dt == IF timestamp > view.last_update_timestamp
              THEN timestamp - view.last_update_timestamp ELSE 0
        rate == IF view.balance > 0 THEN view.interest_rate_given
                ELSE view.interest_rate_received
    IN view.balance + TruncDiv(view.balance * rate * dt, InterestScale)

RECURSIVE SumBalances(_, _, _, _)
SumBalances(graph, user, others, timestamp) ==
    IF others = {} THEN 0
    ELSE LET o == CHOOSE x \in others : TRUE
         IN balance_with_interests(ViewFrom(EdgeOf(graph, user, o), user, o), timestamp)
            + SumBalances(graph, user, others \ {o}, timestamp)

\* graph.get_account_sum(user, counter_party, timestamp): the accrued balance
\* of one edge, or with counter_party omitted of all edges of the user.
get_account_sum(graph, user, counter_party, timestamp) ==
    IF counter_party = None
    THEN SumBalances(graph, user,
             {o \in Users \ {user} : EdgeKey(user, o) \in DOMAIN graph.edges}, timestamp)
    ELSE balance_with_interests(
             ViewFrom(EdgeOf(graph, user, counter_party), user, counter_party), timestamp)

\* --------------------------------------------------- network event handlers

\* BalanceEvent(network_address, from_, to, balance, timestamp); user = from_
BalanceEvent(network_address, from_, to, balance, timestamp) ==
    [type |-> "BalanceUpdate", network_address |-> network_address,
     user |-> from_, from_ |-> from_, to |-> to, value |-> balance,
     timestamp |-> timestamp]

\* NetworkBalanceEvent(network_address, user, balance, timestamp)
NetworkBalanceEvent(network_address, user, balance, timestamp) ==
    [type |-> "NetworkBalance", network_address |-> network_address,
     user |-> user, from_ |-> None, to |-> None, value |-> balance,
     timestamp |-> timestamp]

\* A ledger event as the proxy hands it to its callback (user not bound).
BlockchainEvent(type, network_address, from_, to, value, timestamp) ==
    [type |-> type, network_address |-> network_address, user |-> None,
     from_ |-> from_, to |-> to, value |-> value, timestamp |-> timestamp]

\* _generate_trustline_events, reading the given graphs
generate_trustline_events(graphs, user1, user2, network_address, timestamp) ==
    LET graph == graphs[network_address]
    IN << BalanceEvent(network_address, user1, user2,
              get_account_sum(graph, user1, user2, timestamp), timestamp),
          BalanceEvent(network_address, user2, user1,
              get_account_sum(graph, user2, user1, timestamp), timestamp),
          NetworkBalanceEvent(network_address, user1,
              get_account_sum(graph, user1, None, timestamp), timestamp),
          NetworkBalanceEvent(network_address, user2,
              get_account_sum(graph, user2, None, timestamp), timestamp) >>

\* _publish_blockchain_event publishing for the receiver only
publish_blockchain_event_to_only(event) ==
    << [event EXCEPT !.user = event.to] >>

\* _publish_blockchain_event: one copy of the event per participant, with the
\* user bound to from_ and then to to.
publish_blockchain_event(event) ==
    << [event EXCEPT !.user = event.from_], [event EXCEPT !.user = event.to] >>

\* The proxy of the network has the callback attached.
Listening(network_address, name) ==
    /\ network_address \in network_addresses
    /\ \E i \in 1..Len(listeners[<<"network", network_address>>]) :
           listeners[<<"network", network_address>>][i] = name

\* A handler looked up a network address that is in no dictionary: the
\* KeyError leaves the handler before it has changed or published anything.
KeyError(op, ev) ==
    /\ call' = Call(op, <<ev>>, "KeyError")
    /\ emitted' = <<>>
    /\ nevents' = nevents + 1
    /\ UNCHANGED <<regVars, pushVars, fanVars, mergeVars, loopVars>>

\* _process_balance_update deriving its events from the mirror before the update
process_balance_update_stale_sums(ev) ==
    IF ev.network_address \notin DOMAIN currency_network_graphs
    THEN KeyError("process_balance_update", ev)
    ELSE
    /\ currency_network_graphs' = [currency_network_graphs EXCEPT
           ![ev.network_address] = update_balance(@, ev.from_, ev.to, ev.value, ev.timestamp)]
    /\ emitted' = generate_trustline_events(currency_network_graphs,
           ev.from_, ev.to, ev.network_address, ev.timestamp)
    /\ call' = Call("process_balance_update", <<ev>>, "ok")
    /\ nevents' = nevents + 1
    /\ UNCHANGED <<currency_network_proxies, shield_proxies, escrow_proxies,
                   gateway_proxies, exchange_proxies, unw_eth_proxies, token_proxies,
                   known_identity_factories, listeners, proxies_created>>
    /\ UNCHANGED <<pushVars, fanVars, mergeVars, loopVars>>

\* _process_balance_update past its lookup: the graph is updated and the
\* four derived events, computed on the updated mirror, are published.
apply_balance_update(ev) ==
    /\ currency_network_graphs' = [currency_network_graphs EXCEPT
           ![ev.network_address] = update_balance(@, ev.from_, ev.to, ev.value, ev.timestamp)]
    /\ emitted' = generate_trustline_events(currency_network_graphs',
           ev.from_, ev.to, ev.network_address, ev.timestamp)
    /\ call' = Call("process_balance_update", <<ev>>, "ok")
    /\ nevents' = nevents + 1
    /\ UNCHANGED <<currency_network_proxies, shield_proxies, escrow_proxies,
                   gateway_proxies, exchange_proxies, unw_eth_proxies, token_proxies,
                   known_identity_factories, listeners, proxies_created>>
    /\ UNCHANGED <<pushVars, fanVars, mergeVars, loopVars>>

\* _process_balance_update dropping the events of a frozen network
process_balance_update_unless_frozen(ev) ==
    IF ev.network_address \notin DOMAIN currency_network_graphs
    THEN KeyError("process_balance_update", ev)
    ELSE IF currency_network_proxies[ev.network_address].is_frozen
    THEN /\ call' = Call("process_balance_update", <<ev>>, "ok")
         /\ emitted' = <<>>
         /\ nevents' = nevents + 1
         /\ UNCHANGED <<regVars, pushVars, fanVars, mergeVars, loopVars>>
    ELSE apply_balance_update(ev)

\* _process_balance_update with currency_network_graphs a defaultdict
process_balance_update_defaulting(ev) ==
    IF ev.network_address \notin DOMAIN currency_network_graphs
    THEN /\ currency_network_graphs' = Put(currency_network_graphs, ev.network_address,
                update_balance(CurrencyNetworkGraph(NetworkConfig(ev.network_address)),
                               ev.from_, ev.to, ev.value, ev.timestamp))
         /\ emitted' = <<>>
         /\ call' = Call("process_balance_update", <<ev>>, "ok")
         /\ nevents' = nevents + 1
         /\ UNCHANGED <<currency_network_proxies, shield_proxies, escrow_proxies,
                        gateway_proxies, exchange_proxies, unw_eth_proxies, token_proxies,
                        known_identity_factories, listeners, proxies_created>>
         /\ UNCHANGED <<pushVars, fanVars, mergeVars, loopVars>>
    ELSE apply_balance_update(ev)

\* _process_balance_update: look up the graph of the event's network, update
\* it, then publish the four derived events computed on the updated mirror.
process_balance_update(ev) ==
    IF ev.network_address \notin DOMAIN currency_network_graphs
    THEN KeyError("process_balance_update", ev)
    ELSE apply_balance_update(ev)

\* _process_trustline_update publishing the derived events only
process_trustline_update_derived_only(ev) ==
    IF ev.network_address \notin DOMAIN currency_network_graphs
    THEN KeyError("process_trustline_update", ev)
    ELSE
    /\ currency_network_graphs' = [currency_network_graphs EXCEPT
           ![ev.network_address] = update_trustline(@, ev.from_, ev.to,
               ev.value.creditline_given, ev.value.creditline_received,
               ev.value.interest_rate_given, ev.value.interest_rate_received)]
    /\ emitted' = generate_trustline_events(currency_network_graphs',
                      ev.from_, ev.to, ev.network_address, ev.timestamp)
    /\ call' = Call("process_trustline_update", <<ev>>, "ok")
    /\ nevents' = nevents + 1
    /\ UNCHANGED <<currency_network_proxies, shield_proxies, escrow_proxies,
                   gateway_proxies, exchange_proxies, unw_eth_proxies, token_proxies,
                   known_identity_factories, listeners, proxies_created>>
    /\ UNCHANGED <<pushVars, fanVars, mergeVars, loopVars>>

\* _process_trustline_update: update the mirror, publish the event to both
\* participants, then publish the four derived events.
process_trustline_update(ev) ==
    IF ev.network_address \notin DOMAIN currency_network_graphs
    THEN KeyError("process_trustline_update", ev)
    ELSE
    /\ currency_network_graphs' = [currency_network_graphs EXCEPT
           ![ev.network_address] = update_trustline(@, ev.from_, ev.to,
               ev.value.creditline_given, ev.value.creditline_received,
               ev.value.interest_rate_given, ev.value.interest_rate_received)]
    /\ emitted' = publish_blockchain_event(ev)
           \o generate_trustline_events(currency_network_graphs',
                  ev.from_, ev.to, ev.network_address, ev.timestamp)
    /\ call' = Call("process_trustline_update", <<ev>>, "ok")
    /\ nevents' = nevents + 1
    /\ UNCHANGED <<currency_network_proxies, shield_proxies, escrow_proxies,
                   gateway_proxies, exchange_proxies, unw_eth_proxies, token_proxies,
                   known_identity_factories, listeners, proxies_created>>
    /\ UNCHANGED <<pushVars, fanVars, mergeVars, loopVars>>

\* _process_transfer: publish the event to both participants.
process_transfer(ev) ==
    /\ emitted' = publish_blockchain_event(ev)
    /\ call' = Call("process_transfer", <<ev>>, "ok")
    /\ nevents' = nevents + 1
    /\ UNCHANGED <<regVars, pushVars, fanVars, mergeVars, loopVars>>

process_network_freeze_unfreezing(ev) ==
    IF ev.network_address \notin DOMAIN currency_network_proxies
    THEN KeyError("process_network_freeze", ev)
    ELSE
    /\ currency_network_proxies' = [currency_network_proxies EXCEPT
           ![ev.network_address].is_frozen = ~@]
    /\ emitted' = <<>>
    /\ call' = Call("process_network_freeze", <<ev>>, "ok")
    /\ nevents' = nevents + 1
    /\ UNCHANGED <<currency_network_graphs, shield_proxies, escrow_proxies,
                   gateway_proxies, exchange_proxies, unw_eth_proxies, token_proxies,
                   known_identity_factories, listeners, proxies_created>>
    /\ UNCHANGED <<pushVars, fanVars, mergeVars, loopVars>>

\* _process_network_freeze: set the proxy's is_frozen flag.
process_network_freeze(ev) ==
    IF ev.network_address \notin DOMAIN currency_network_proxies
    THEN KeyError("process_network_freeze", ev)
    ELSE
    /\ currency_network_proxies' = [currency_network_proxies EXCEPT
           ![ev.network_address].is_frozen = TRUE]
    /\ emitted' = <<>>
    /\ call' = Call("process_network_freeze", <<ev>>, "ok")
    /\ nevents' = nevents + 1
    /\ UNCHANGED <<currency_network_graphs, shield_proxies, escrow_proxies,
                   gateway_proxies, exchange_proxies, unw_eth_proxies, token_proxies,
                   known_identity_factories, listeners, proxies_created>>
    /\ UNCHANGED <<pushVars, fanVars, mergeVars, loopVars>>

\* update_community applying the snapshot edge by edge over the old edges
update_community_merging(network_address, graph_rep) ==
    /\ currency_network_graphs' = [currency_network_graphs EXCEPT
           ![network_address].edges =
               [k \in DOMAIN @ \cup DOMAIN graph_rep |->
                   IF k \in DOMAIN graph_rep THEN graph_rep[k] ELSE @[k]]]
    /\ emitted' = <<>>
    /\ call' = Call("update_community", <<network_address, graph_rep>>, "ok")
    /\ nevents' = nevents + 1
    /\ UNCHANGED <<currency_network_proxies, shield_proxies, escrow_proxies,
                   gateway_proxies, exchange_proxies, unw_eth_proxies, token_proxies,
                   known_identity_factories, listeners, proxies_created>>
    /\ UNCHANGED <<pushVars, fanVars, mergeVars, loopVars>>

\* _create_on_full_sync(graph).update_community(graph_rep)
update_community(network_address, graph_rep) ==
    /\ currency_network_graphs' = [currency_network_graphs EXCEPT
           ![network_address] = gen_network(@, graph_rep)]
    /\ emitted' = <<>>
    /\ call' = Call("update_community", <<network_address, graph_rep>>, "ok")
    /\ nevents' = nevents + 1
    /\ UNCHANGED <<currency_network_proxies, shield_proxies, escrow_proxies,
                   gateway_proxies, exchange_proxies, unw_eth_proxies, token_proxies,
                   known_identity_factories, listeners, proxies_created>>
    /\ UNCHANGED <<pushVars, fanVars, mergeVars, loopVars>>

\* Types of the events that may arrive for a network that is not tracked.
StrayTypes == {"BalanceUpdate", "TrustlineUpdate", "NetworkFreeze"}

\* An event of the type arrives at its handler for network n.
stray_event(type, n, t) ==
    CASE type = "BalanceUpdate" ->
           process_balance_update(BlockchainEvent(type, n, "0xU1", "0xU2", 500, t))
      [] type = "TrustlineUpdate" ->
           process_trustline_update(BlockchainEvent(type, n, "0xU2", "0xU1",
               [creditline_given |-> 1000, creditline_received |-> 800,
                interest_rate_given |-> 10, interest_rate_received |-> 30], t))
      [] type = "NetworkFreeze" ->
           process_network_freeze(BlockchainEvent(type, n, None, None, 0, t))

\* Block timestamps the next ledger event may carry: the clock never runs
\* backwards.
NextTimes == {t \in {now, now + 1} : t <= MaxTime}

\* Block timestamps of the events logged before the last full sync: the
\* listener may hand such an event to its callback after the sync is done.
StaleTimes == {t \in 0..MaxTime : t < now}

\* Values a BalanceUpdate event carries.
BalanceValues == {500}

\* Limits and rates a TrustlineUpdate event carries.
TrustlineValues ==
    {[creditline_given |-> 1000, creditline_received |-> 800,
      interest_rate_given |-> 10, interest_rate_received |-> 30]}

\* Snapshots the full sync of a network may deliver at time t.
Snapshots(t) ==
    {EmptyDict,
     (<<"0xU1", "0xU2">> :>
        [creditline_given |-> 1000, creditline_received |-> 800,
         interest_rate_given |-> 10, interest_rate_received |-> 30,
         balance |-> 300, last_update_timestamp |-> t])}

Pairs == {p \in Users \X Users : p[1] # p[2]}

\* Creditor and debtor of the TrustlineUpdate events the ledger emits: each
\* edge once, in both orientations relative to the edge key.
TrustlinePairs == {<<"0xU2", "0xU1">>, <<"0xU1", "0xU3">>, <<"0xU3", "0xU2">>}

\* Participants of the Transfer events the ledger emits.
TransferPairs == {<<"0xU1", "0xU2">>}

\* ------------------------------------------------------ push subscriptions
\* Subject, MessagingSubject, Client and PushNotificationClient
\* (relay/streams.py, relay/pushservice) and ClientTokenDB are not part of
\* src/; they are modelled from spec.md sections 3, 4.4 and 6.

PushUsers == {"0xU1", "0xU2"}
Tokens == {"tok1", "tok2"}
GenericClients == {"g1"}

\* PushNotificationClient(service, client_token); id stands for the identity
\* of the object, one per (address, token) it was created for.
PushNotificationClient(user_address, client_token) ==
    [kind |-> "push", client_token |-> client_token,
     id |-> <<user_address, client_token>>]

GenericClient(g) == [kind |-> "generic", client_token |-> None, id |-> <<g>>]

\* Subject.subscribe(client): appends a subscription for the client.
subscribe(registry, user_address, client) ==
    [registry EXCEPT ![user_address] = Append(@, [client |-> client])]

\* Client.close(): every subscription of the client is removed, from every
\* subject it was subscribed to.
close(registry, client) ==
    [u \in DOMAIN registry |->
        SelectSeq(registry[u], LAMBDA sub : sub.client # client)]

\* The subscriptions of the list that belong to a push client with the token.
IsPushFor(sub, client_token) ==
    sub.client.kind = "push" /\ sub.client.client_token = client_token

PushSubscriptions(list, client_token) ==
    SelectSeq(list, LAMBDA sub : IsPushFor(sub, client_token))

\* FirebaseRawPushService.check_client_token(client_token)
check_client_token(client_token) == client_token \in valid_tokens

\* _start_pushnotifications past the token check: <<subjects, messaging>>
\* after the call, with no test for an existing subscription.
start_pushnotifications_no_duplicate_test(subj, msg, user_address, client_token) ==
    LET client == PushNotificationClient(user_address, client_token)
    IN << subscribe(subj, user_address, client),
          subscribe(msg, user_address, client) >>

\* _start_pushnotifications past the token check: <<subjects, messaging>>
\* after the call.
start_pushnotifications(subj, msg, user_address, client_token) ==
    IF Len(PushSubscriptions(subj[user_address], client_token)) > 0
    THEN <<subj, msg>>
    ELSE LET client == PushNotificationClient(user_address, client_token)
         IN << subscribe(subj, user_address, client),
               subscribe(msg, user_address, client) >>

\* _stop_pushnotifications: closes the client of every matching subscription
\* of subjects[user_address]; <<subjects, messaging, success>> after the call.
RECURSIVE stop_pushnotifications(_, _, _, _)
stop_pushnotifications(subj, msg, matching, success) ==
    IF matching = <<>> THEN <<subj, msg, success>>
    ELSE stop_pushnotifications(close(subj, Head(matching).client),
                                close(msg, Head(matching).client),
                                Tail(matching), TRUE)

\* ClientTokenDB.add_client_token: the mapping is inserted; a mapping that is
\* already stored raises ClientTokenAlreadyExistsException.
add_client_token(store, user_address, client_token) ==
    [store |-> store \cup {<<user_address, client_token>>},
     raised |-> <<user_address, client_token>> \in store]

\* add_push_client_token that lets the store's exception through
register_push_client_token_uncaught(user_address, client_token) ==
    LET already == Len(PushSubscriptions(subjects[user_address], client_token)) > 0
        after == start_pushnotifications(subjects, messaging, user_address, client_token)
        added == add_client_token(token_store, user_address, client_token)
    IN /\ subjects' = after[1]
       /\ messaging' = after[2]
       /\ token_store' = added.store
       /\ call' = Call("add_push_client_token",
                       <<user_address, client_token, already>>,
                       IF added.raised THEN "ClientTokenAlreadyExistsException"
                       ELSE "ok")
       /\ UNCHANGED <<firebase_raw_push_service, valid_tokens, started>>
       /\ UNCHANGED <<regVars, netVars, fanVars, mergeVars, loopVars, hubVars>>

\* add_push_client_token once the token is accepted: subscribe, then store;
\* the store's ClientTokenAlreadyExistsException is caught and ignored.
register_push_client_token(user_address, client_token) ==
    LET already == Len(PushSubscriptions(subjects[user_address], client_token)) > 0
        after == start_pushnotifications(subjects, messaging, user_address, client_token)
        added == add_client_token(token_store, user_address, client_token)
    IN /\ subjects' = after[1]
       /\ messaging' = after[2]
       /\ token_store' = added.store
       /\ call' = Call("add_push_client_token",
                       <<user_address, client_token, already>>, "ok")
       /\ UNCHANGED <<firebase_raw_push_service, valid_tokens, started>>
       /\ UNCHANGED <<regVars, netVars, fanVars, mergeVars, loopVars, hubVars>>

\* add_push_client_token that stores the mapping before the token is checked
add_push_client_token_store_first(user_address, client_token) ==
    LET already == Len(PushSubscriptions(subjects[user_address], client_token)) > 0
    IN
    IF ~firebase_raw_push_service
    THEN /\ call' = Call("add_push_client_token",
                         <<user_address, client_token, already>>, "ok")
         /\ UNCHANGED <<regVars, pushVars, netVars, fanVars, mergeVars, loopVars, hubVars>>
    ELSE IF ~check_client_token(client_token)
    THEN /\ call' = Call("add_push_client_token",
                         <<user_address, client_token, already>>,
                         "InvalidClientTokenException")
         /\ token_store' = token_store \cup {<<user_address, client_token>>}
         /\ UNCHANGED <<subjects, messaging, firebase_raw_push_service,
                        valid_tokens, started>>
         /\ UNCHANGED <<regVars, netVars, fanVars, mergeVars, loopVars, hubVars>>
    ELSE register_push_client_token(user_address, client_token)

\* add_push_client_token that looks for the subscription before it checks
\* the token
add_push_client_token_subscription_test_first(user_address, client_token) ==
    LET already == Len(PushSubscriptions(subjects[user_address], client_token)) > 0
    IN
    IF ~firebase_raw_push_service
    THEN /\ call' = Call("add_push_client_token",
                         <<user_address, client_token, already>>, "ok")
         /\ UNCHANGED <<regVars, pushVars, netVars, fanVars, mergeVars, loopVars, hubVars>>
    ELSE IF ~already /\ ~check_client_token(client_token)
    THEN /\ call' = Call("add_push_client_token",
                         <<user_address, client_token, already>>,
                         "InvalidClientTokenException")
         /\ UNCHANGED <<regVars, pushVars, netVars, fanVars, mergeVars, loopVars, hubVars>>
    ELSE register_push_client_token(user_address, client_token)

add_push_client_token(user_address, client_token) ==
    LET already == Len(PushSubscriptions(subjects[user_address], client_token)) > 0
    IN
    IF ~firebase_raw_push_service
    THEN /\ call' = Call("add_push_client_token",
                         <<user_address, client_token, already>>, "ok")
         /\ UNCHANGED <<regVars, pushVars, netVars, fanVars, mergeVars, loopVars, hubVars>>
    ELSE IF ~check_client_token(client_token)
    THEN /\ call' = Call("add_push_client_token",
                         <<user_address, client_token, already>>,
                         "InvalidClientTokenException")
         /\ UNCHANGED <<regVars, pushVars, netVars, fanVars, mergeVars, loopVars, hubVars>>
    ELSE register_push_client_token(user_address, client_token)

\* delete_push_client_token that reports success when nothing matched
delete_push_client_token_silent(user_address, client_token) ==
    LET after == stop_pushnotifications(subjects, messaging,
                     PushSubscriptions(subjects[user_address], client_token), FALSE)
    IN
    IF ~firebase_raw_push_service
    THEN /\ call' = Call("delete_push_client_token",
                         <<user_address, client_token>>, "ok")
         /\ UNCHANGED <<regVars, pushVars, netVars, fanVars, mergeVars, loopVars, hubVars>>
    ELSE /\ token_store' = token_store \ {<<user_address, client_token>>}
         /\ subjects' = after[1]
         /\ messaging' = after[2]
         /\ call' = Call("delete_push_client_token",
                         <<user_address, client_token>>, "ok")
         /\ UNCHANGED <<firebase_raw_push_service, valid_tokens, started>>
         /\ UNCHANGED <<regVars, netVars, fanVars, mergeVars, loopVars, hubVars>>

\* delete_push_client_token that leaves the mapping in the token store
delete_push_client_token_keeping_mapping(user_address, client_token) ==
    LET after == stop_pushnotifications(subjects, messaging,
                     PushSubscriptions(subjects[user_address], client_token), FALSE)
    IN
    IF ~firebase_raw_push_service
    THEN /\ call' = Call("delete_push_client_token",
                         <<user_address, client_token>>, "ok")
         /\ UNCHANGED <<regVars, pushVars, netVars, fanVars, mergeVars, loopVars, hubVars>>
    ELSE /\ subjects' = after[1]
         /\ messaging' = after[2]
         /\ call' = Call("delete_push_client_token",
                         <<user_address, client_token>>,
                         IF after[3] THEN "ok" ELSE "TokenNotFoundException")
         /\ UNCHANGED <<firebase_raw_push_service, valid_tokens, started, token_store>>
         /\ UNCHANGED <<regVars, netVars, fanVars, mergeVars, loopVars, hubVars>>

\* delete_push_client_token: delete the mapping from the token store, then
\* _stop_pushnotifications, which raises when no subscription matched.
delete_push_client_token(user_address, client_token) ==
    LET after == stop_pushnotifications(subjects, messaging,
                     PushSubscriptions(subjects[user_address], client_token), FALSE)
    IN
    IF ~firebase_raw_push_service
    THEN /\ call' = Call("delete_push_client_token",
                         <<user_address, client_token>>, "ok")
         /\ UNCHANGED <<regVars, pushVars, netVars, fanVars, mergeVars, loopVars, hubVars>>
    ELSE /\ token_store' = token_store \ {<<user_address, client_token>>}
         /\ subjects' = after[1]
         /\ messaging' = after[2]
         /\ call' = Call("delete_push_client_token",
                         <<user_address, client_token>>,
                         IF after[3] THEN "ok" ELSE "TokenNotFoundException")
         /\ UNCHANGED <<firebase_raw_push_service, valid_tokens, started>>
         /\ UNCHANGED <<regVars, netVars, fanVars, mergeVars, loopVars, hubVars>>

\* _start_pushnotifications_for_registered_users that keeps the mappings of
\* rejected tokens
RECURSIVE start_pushnotifications_for_registered_users_keeping(_, _, _, _)
start_pushnotifications_for_registered_users_keeping(subj, msg, store, mappings) ==
    IF mappings = <<>> THEN <<subj, msg, store>>
    ELSE LET m == Head(mappings)
         IN IF check_client_token(m[2])
            THEN LET after == start_pushnotifications(subj, msg, m[1], m[2])
                 IN start_pushnotifications_for_registered_users_keeping(
                        after[1], after[2], store, Tail(mappings))
            ELSE start_pushnotifications_for_registered_users_keeping(
                     subj, msg, store, Tail(mappings))

\* _start_pushnotifications_for_registered_users over the mappings in the
\* order the store lists them: <<subjects, messaging, token_store>> after.
RECURSIVE start_pushnotifications_for_registered_users(_, _, _, _)
start_pushnotifications_for_registered_users(subj, msg, store, mappings) ==
    IF mappings = <<>> THEN <<subj, msg, store>>
    ELSE LET m == Head(mappings)
         IN IF check_client_token(m[2])
            THEN LET after == start_pushnotifications(subj, msg, m[1], m[2])
                 IN start_pushnotifications_for_registered_users(
                        after[1], after[2], store, Tail(mappings))
            ELSE start_pushnotifications_for_registered_users(
                     subj, msg, store \ {m}, Tail(mappings))

\* The orders in which the store may list its mappings.
Listings(store) ==
    {l \in [1..Cardinality(store) -> store] :
        \A i, j \in 1..Cardinality(store) : i # j => l[i] # l[j]}

\* _start_push_service: with credentials configured the push service and the
\* token store are set up and the persisted subscriptions are restored.
start_push_service(credentials) ==
    /\ ~started
    /\ started' = TRUE
    /\ call' = Call("start_push_service", <<credentials>>, "ok")
    /\ IF credentials
       THEN \E listing \in Listings(token_store) :
              LET after == start_pushnotifications_for_registered_users(
                               subjects, messaging, token_store, listing)
              IN /\ firebase_raw_push_service' = TRUE
                 /\ subjects' = after[1]
                 /\ messaging' = after[2]
                 /\ token_store' = after[3]
       ELSE UNCHANGED <<firebase_raw_push_service, subjects, messaging, token_store>>
    /\ UNCHANGED valid_tokens
    /\ UNCHANGED <<regVars, netVars, fanVars, mergeVars, loopVars, hubVars>>

\* A generic client (a live-update connection) subscribes to the events of
\* an address; generic subscriptions are always appended.
subscribe_generic(user_address, g) ==
    /\ Len(subjects[user_address]) < MaxSubs
    /\ subjects' = subscribe(subjects, user_address, GenericClient(g))
    /\ call' = Call("subscribe", <<user_address, g>>, "ok")
    /\ UNCHANGED <<messaging, firebase_raw_push_service, token_store,
                   valid_tokens, started>>
    /\ UNCHANGED <<regVars, netVars, fanVars, mergeVars, loopVars, hubVars>>

\* A generic client closes its connection.
close_generic(g) ==
    /\ \E u \in PushUsers : \E i \in 1..Len(subjects[u]) :
          subjects[u][i].client = GenericClient(g)
    /\ subjects' = close(subjects, GenericClient(g))
    /\ messaging' = close(messaging, GenericClient(g))
    /\ call' = Call("close", <<g>>, "ok")
    /\ UNCHANGED <<firebase_raw_push_service, token_store, valid_tokens, started>>
    /\ UNCHANGED <<regVars, netVars, fanVars, mergeVars, loopVars, hubVars>>

\* The push backend starts or stops accepting a token.
backend_changes(client_token) ==
    /\ valid_tokens' = IF client_token \in valid_tokens
                       THEN valid_tokens \ {client_token}
                       ELSE valid_tokens \cup {client_token}
    /\ call' = Call("backend_changes", <<client_token>>, "ok")
    /\ UNCHANGED <<subjects, messaging, firebase_raw_push_service, token_store,
                   started>>
    /\ UNCHANGED <<regVars, netVars, fanVars, mergeVars, loopVars, hubVars>>

\* ------------------------------------------------- event ordering, fan-in
\* sorted_events (relay/blockchain/proxy.py), concurrency_utils.joinall and
\* the proxies' get_*_events are not part of src/; they are modelled from
\* spec.md sections 3, 4.1 and 4.3.

\* Event type names in alphabetical order.
TypeNames == <<"Deposit", "Deposited", "LogFill", "Transfer", "TrustlineUpdate">>
TypeRank(type) == CHOOSE i \in 1..Len(TypeNames) : TypeNames[i] = type

\* A ledger event as a query returns it.
LogEvent(address, blocknumber, log_index, type) ==
    [address |-> address, blocknumber |-> blocknumber, log_index |-> log_index,
     type |-> type]

\* order_key: (block_number, log_index), ties broken by the event type name.
order_key(event) == <<event.blocknumber, event.log_index, TypeRank(event.type)>>

KeyLess(k1, k2) ==
    \/ k1[1] < k2[1]
    \/ k1[1] = k2[1] /\ k1[2] < k2[2]
    \/ k1[1] = k2[1] /\ k1[2] = k2[2] /\ k1[3] < k2[3]

\* The place of events[i] in the sorted list: after every event with a
\* smaller key and after the events with an equal key that precede it in the
\* input.
SortedPosition(events, i) ==
    1 + Cardinality({j \in DOMAIN events :
                        \/ KeyLess(order_key(events[j]), order_key(events[i]))
                        \/ j < i /\ order_key(events[j]) = order_key(events[i])})

\* sorted_events(events): a stable sort by order_key.
sorted_events(events) ==
    LET position == [i \in DOMAIN events |-> SortedPosition(events, i)]
    IN [p \in DOMAIN events |->
           events[CHOOSE i \in DOMAIN events : position[i] = p]]

\* list(itertools.chain.from_iterable(results))
RECURSIVE chain_from_iterable(_)
chain_from_iterable(lists) ==
    IF lists = <<>> THEN <<>>
    ELSE Head(lists) \o chain_from_iterable(Tail(lists))

\* Event types each proxy kind knows (its event_types / standard_event_types).
EventTypes(kind) ==
    CASE kind = "network" -> {"Transfer", "TrustlineUpdate"}
      [] kind = "unw_eth" -> {"Transfer", "Deposit"}
      [] kind = "exchange" -> {"LogFill"}
      [] kind = "escrow" -> {"Deposited"}

\* The events of the queried user in the log of each contract, in the order
\* of the contract's log. The sequence numbers are per contract: two networks
\* both log a Transfer as entry 0 of block 1.
SourceLog(src) ==
    CASE src = <<"network", "0xC1">> ->
             << LogEvent("0xC1", 0, 0, "TrustlineUpdate"),
                LogEvent("0xC1", 1, 0, "Transfer"),
                LogEvent("0xC1", 2, 0, "TrustlineUpdate") >>
      [] src = <<"network", "0xC2">> ->
             << LogEvent("0xC2", 1, 0, "Transfer") >>
      [] src = <<"unw_eth", "0xC1">> ->
             << LogEvent("0xC1", 1, 0, "Deposit"),
                LogEvent("0xC1", 3, 0, "Transfer") >>
      [] src = <<"exchange", "0xC1">> ->
             << LogEvent("0xC1", 2, 0, "LogFill") >>
      [] src = <<"escrow", "0xC1">> ->
             << LogEvent("0xC1", 1, 1, "Deposited"),
                LogEvent("0xC1", 2, 0, "Deposited") >>
      [] OTHER -> <<>>

\* What the query built for the source returns: the typed query when the
\* proxy knows the type, the query for all events otherwise; from from_block.
QueryOutput(src, type, from_block) ==
    LET typed == type # None /\ type \in EventTypes(src[1])
    IN SelectSeq(SourceLog(src),
           LAMBDA e : /\ e.blocknumber >= from_block
                      /\ typed => e.type = type)

\* _get_network_event_queries ... _get_escrow_event_queries: one query per
\* registered network, unw-ETH, exchange and escrow contract.
user_event_queries ==
    ({"network"} \X network_addresses) \cup ({"unw_eth"} \X unw_eth_addresses)
    \cup ({"exchange"} \X exchange_addresses) \cup ({"escrow"} \X escrow_addresses)

\* _get_exchange_event_queries: one query per registered exchange.
exchange_event_queries == {"exchange"} \X exchange_addresses

\* joinall(queries, timeout): every query is started as a task and the
\* caller waits.
joinall(queries, timeout) ==
    /\ tasks' = [src \in queries |-> "running"]
    /\ results' = <<>>
    /\ ret' = <<>>
    /\ deadline' = (timeout # None)
    /\ pc' = "waiting"

QueryCall(op, user_address, type, from_block, timeout, result) ==
    /\ query_call' = Call(op, <<user_address, type, from_block, timeout>>, result)
    /\ call' = query_call'
    /\ UNCHANGED <<regVars, pushVars, netVars, mergeVars, loopVars, hubVars>>

\* The assertion on the user address fails: no task is started.
user_assertion_failure(op, user_address, type, from_block, timeout) ==
    /\ QueryCall(op, user_address, type, from_block, timeout, "AssertionError")
    /\ tasks' = EmptyDict
    /\ results' = <<>>
    /\ ret' = <<>>
    /\ deadline' = FALSE
    /\ pc' = "idle"

\* get_user_events that does not hand its timeout to joinall
get_user_events_no_timeout(user_address, type, from_block, timeout) ==
    IF ~user_is_checksum_address(user_address)
    THEN user_assertion_failure("get_user_events", user_address, type, from_block, timeout)
    ELSE /\ QueryCall("get_user_events", user_address, type, from_block, timeout,
                      "pending")
         /\ joinall(user_event_queries, None)

\* get_user_events waiting for its tasks no longer than a default deadline
get_user_events_default_timeout(user_address, type, from_block, timeout) ==
    IF ~user_is_checksum_address(user_address)
    THEN user_assertion_failure("get_user_events", user_address, type, from_block, timeout)
    ELSE /\ QueryCall("get_user_events", user_address, type, from_block, timeout,
                      "pending")
         /\ joinall(user_event_queries, "1")

\* get_user_events up to the wait in joinall.
get_user_events(user_address, type, from_block, timeout) ==
    IF ~user_is_checksum_address(user_address)
    THEN user_assertion_failure("get_user_events", user_address, type, from_block, timeout)
    ELSE /\ QueryCall("get_user_events", user_address, type, from_block, timeout,
                      "pending")
         /\ joinall(user_event_queries, timeout)

\* get_all_user_exchange_events up to the wait in joinall.
get_all_user_exchange_events(user_address, type, from_block, timeout) ==
    IF ~user_is_checksum_address(user_address)
    THEN user_assertion_failure("get_all_user_exchange_events", user_address, type,
                                from_block, timeout)
    ELSE /\ QueryCall("get_all_user_exchange_events", user_address, type,
                      from_block, timeout, "pending")
         /\ joinall(exchange_event_queries, timeout)

\* A query task returns its events. While joinall waits the output is
\* collected; after joinall returned it is discarded.
task_completes(src) ==
    /\ tasks[src] = "running"
    /\ IF pc = "waiting"
       THEN /\ tasks' = [tasks EXCEPT ![src] = "done"]
            /\ results' = Append(results, QueryOutput(src, query_call.args[2],
                                                   query_call.args[3]))
       ELSE /\ tasks' = [tasks EXCEPT ![src] = "done_late"]
            /\ UNCHANGED results
    /\ UNCHANGED <<pc, ret, deadline, query_call, call>>
    /\ UNCHANGED <<regVars, pushVars, netVars, mergeVars, loopVars, hubVars>>

\* A query task raises: the failure is logged and the task contributes
\* nothing.
task_raises(src) ==
    /\ tasks[src] = "running"
    /\ tasks' = [tasks EXCEPT ![src] = "raised"]
    /\ UNCHANGED <<pc, results, ret, deadline, query_call, call>>
    /\ UNCHANGED <<regVars, pushVars, netVars, mergeVars, loopVars, hubVars>>

user_events_result_sorted_per_source(collected) ==
    chain_from_iterable([i \in DOMAIN collected |-> sorted_events(collected[i])])

user_events_result_unsorted(collected) == chain_from_iterable(collected)

user_events_result_first_only(collected) ==
    IF collected = <<>> THEN <<>> ELSE sorted_events(Head(collected))

\* The return statement of get_user_events and get_all_user_exchange_events.
user_events_result(collected) == sorted_events(chain_from_iterable(collected))

Returns ==
    /\ pc' = "returned"
    /\ ret' = user_events_result(results)
    /\ query_call' = [query_call EXCEPT !.result = "ok"]
    /\ call' = query_call'
    /\ UNCHANGED <<tasks, results, deadline>>
    /\ UNCHANGED <<regVars, pushVars, netVars, mergeVars, loopVars, hubVars>>

\* joinall returns because every task has finished.
all_tasks_finished ==
    /\ pc = "waiting"
    /\ \A src \in DOMAIN tasks : tasks[src] # "running"
    /\ Returns

\* joinall returns because the deadline has passed with tasks unfinished.
deadline_expires ==
    /\ pc = "waiting"
    /\ deadline
    /\ \E src \in DOMAIN tasks : tasks[src] = "running"
    /\ Returns

\* ---------------------------------------------------------- discovery loop

\* Entries an addresses file may list: addresses in checksum form, the same
\* in lower case, and text that is no address at all.
MalformedEntries == {"0xZZ"}
Entries == Addrs \cup MalformedEntries

\* eth_utils.is_address: the text is a 20-byte hex address in any casing.
is_address(entry) == entry \in Addrs

\* eth_utils.to_checksum_address: the EIP-55 form of an address; raises
\* ValueError on anything else (callers test is_address first here).
to_checksum_address(entry) ==
    CASE entry \in ChecksumAddrs -> entry
      [] entry = "0xc1" -> "0xC1"

\* identityProxyFactory holds a list of addresses or a single one.
KnownFactories(is_list, items) == [is_list |-> is_list, items |-> items]

\* The addresses file: missing, empty, not JSON, or a JSON object whose keys
\* default as addresses.get(key, default) does.
AddressesFile(status, networks, shields, gateways, escrows, exchange, unwEth, factories) ==
    [status |-> status, networks |-> networks, network_shields |-> shields,
     network_gateways |-> gateways, gateway_escrows |-> escrows,
     exchange |-> exchange, unwEth |-> unwEth, identityProxyFactory |-> factories]

NoAddresses(status) ==
    AddressesFile(status, <<>>, <<>>, <<>>, <<>>, None, None, KnownFactories(TRUE, <<>>))

Manifests ==
    { NoAddresses("missing"), NoAddresses("empty"), NoAddresses("not_json"),
      AddressesFile("json", <<"0xc1", "0xC2">>, <<"0xC1">>, <<"0xC1">>, <<"0xC1">>,
                    "0xC1", "0xC1", KnownFactories(TRUE, <<"0xC1">>)),
      AddressesFile("json", <<"0xZZ", "0xC1">>, <<>>, <<>>, <<"0xC2">>,
                    None, None, KnownFactories(TRUE, <<>>)),
      AddressesFile("json", <<"0xC1">>, <<>>, <<>>, <<"0xZZ", "0xC1">>,
                    "0xC2", None, KnownFactories(FALSE, <<"0xc1">>)) }

\* One registration call per listed entry.
CallsOf(kind, entries) == [i \in 1..Len(entries) |-> <<kind, entries[i]>>]

\* A key holding one address or nothing.
CallOf(kind, entry) == IF entry = None THEN <<>> ELSE << <<kind, entry>> >>

FactoryCalls(known_factories) ==
    IF known_factories.is_list
    THEN CallsOf("factory", known_factories.items)
    ELSE << <<"factory", known_factories.items[1]>> >>

\* The registrations _load_addresses makes for the content it read, in the
\* order it makes them; content that is empty or not JSON yields none.
load_addresses_calls(addresses) ==
    IF addresses.status # "json" THEN <<>>
    ELSE CallsOf("network", addresses.networks)
         \o CallsOf("shield", addresses.network_shields)
         \o CallsOf("gateway", addresses.network_gateways)
         \o CallsOf("escrow", addresses.gateway_escrows)
         \o CallOf("exchange", addresses.exchange)
         \o CallOf("unw_eth", addresses.unwEth)
         \o FactoryCalls(addresses.identityProxyFactory)

\* ------------------------------------------------- listeners and handlers

\* Callbacks of a network proxy whose handlers publish events.
HandlerNames == {"balance", "trustline", "transfer"}

\* A callback that is not running a handler.
Idle ==
    [busy |-> FALSE, id |-> 0, seq |-> 0, outbox |-> <<>>, publishing |-> FALSE,
     targets |-> <<>>, registry |-> <<>>, awaiting |-> FALSE]

\* ---------------------------------------------------------- event selectors

\* Contract kinds that have a get_event_selector_for_<kind>.
SelectorKinds == {"network", "shield", "gateway", "escrow", "token", "unw_eth", "exchange"}

\* The dictionary get_event_selector_for_<kind> reads when the event index
\* is off, named by the kind whose proxies it holds:
\* get_event_selector_for_shield reads gateway_proxies.
selector_registry(kind) == IF kind = "shield" THEN "gateway" ELSE kind

\* The proxies the dictionary of a kind holds, by address.
ProxiesOf(kind) ==
    CASE kind = "network" -> DOMAIN currency_network_proxies
      [] kind = "shield" -> DOMAIN shield_proxies
      [] kind = "gateway" -> DOMAIN gateway_proxies
      [] kind = "escrow" -> DOMAIN escrow_proxies
      [] kind = "token" -> DOMAIN token_proxies
      [] kind = "unw_eth" -> DOMAIN unw_eth_proxies
      [] kind = "exchange" -> DOMAIN exchange_proxies

\* What a selector call returned: an EthindexDB for the address, the proxy
\* of a kind registered for the address, or nothing.
Selector(kind, address) == [kind |-> kind, address |-> address]

\* get_event_selector_for_<kind>(address); use_eth_index is read from the
\* environment at each call.
get_event_selector(kind, address, use_eth_index) ==
    /\ call' = IF use_eth_index
               THEN Call("get_event_selector_for_" \o kind,
                         <<address, TRUE, Selector("EthindexDB", address)>>, "ok")
               ELSE IF address \in ProxiesOf(selector_registry(kind))
               THEN Call("get_event_selector_for_" \o kind,
                         <<address, FALSE, Selector(selector_registry(kind), address)>>, "ok")
               ELSE Call("get_event_selector_for_" \o kind,
                         <<address, FALSE, Selector(None, address)>>, "KeyError")
    /\ UNCHANGED <<regVars, pushVars, netVars, fanVars, mergeVars, loopVars, hubVars>>

\* -------------------------------------------------------------------- init

\* No merge has been computed.
NotMerged == [called |-> FALSE, result |-> <<>>]

\* The state after TrustlinesRelay.__init__: every registry empty, no push
\* service, nothing attached.
InitRelay ==
    /\ currency_network_proxies = EmptyDict
    /\ currency_network_graphs = EmptyDict
    /\ shield_proxies = EmptyDict
    /\ escrow_proxies = EmptyDict
    /\ gateway_proxies = EmptyDict
    /\ exchange_proxies = EmptyDict
    /\ unw_eth_proxies = EmptyDict
    /\ token_proxies = EmptyDict
    /\ known_identity_factories = <<>>
    /\ subjects = [u \in Users |-> <<>>]
    /\ messaging = [u \in Users |-> <<>>]
    /\ firebase_raw_push_service = FALSE
    /\ listeners = [ka \in AllKinds \X Addrs |-> <<>>]
    /\ proxies_created = [ka \in AllKinds \X Addrs |-> 0]
    /\ started = FALSE
    /\ now = 0
    /\ nevents = 0
    /\ call = Call("init", <<>>, "ok")
    /\ emitted = <<>>
    /\ pc = "idle"
    /\ tasks = EmptyDict
    /\ results = <<>>
    /\ ret = <<>>
    /\ deadline = FALSE
    /\ query_call = Call(None, <<>>, None)
    /\ manifest = NoAddresses("empty")
    /\ node_up = TRUE
    /\ loop_pc = "sleeping"
    /\ todo = <<>>
    /\ last_pass = None
    /\ pass_manifest = NoAddresses("empty")
    /\ passes = 0
    /\ suspended = {}
    /\ ledger = [n \in ChecksumAddrs |-> <<>>]
    /\ next_id = 0
    /\ handlers = [k \in ChecksumAddrs \X HandlerNames |-> Idle]
    /\ applied = <<>>
    /\ publications = <<>>
    /\ deliveries = <<>>

Init ==
    /\ InitRelay
    /\ token_store = {}
    /\ valid_tokens = {}
    /\ sources = <<>>
    /\ merged = NotMerged

\* Addresses a registration call of the kind finds already present.
Registered(kind) ==
    CASE kind = "network" -> network_addresses
      [] kind = "shield" -> shield_addresses
      [] kind = "escrow" -> escrow_addresses
      [] kind = "gateway" -> gateway_addresses
      [] kind = "exchange" -> exchange_addresses
      [] kind = "unw_eth" -> unw_eth_addresses
      [] kind = "token" -> token_addresses
      [] kind = "factory" -> {known_identity_factories[i] :
                                i \in 1..Len(known_identity_factories)}

\* Number of registrations made so far.
TotalCreated ==
    Cardinality(network_addresses) + Cardinality(shield_addresses)
    + Cardinality(escrow_addresses) + Cardinality(gateway_addresses)
    + Cardinality(exchange_addresses) + Cardinality(unw_eth_addresses)
    + Cardinality(DOMAIN token_proxies) + Len(known_identity_factories)

\* The model stops constructing proxies after MaxRegistrations of them; calls
\* that construct nothing (repeats, malformed addresses) stay possible.
Budget(kind, address) ==
    \/ TotalCreated < MaxRegistrations
    \/ ~is_checksum_address(address)
    \/ address \in Registered(kind)

\* Registration calls of every contract kind, with any address.
Next ==
    \/ \E a \in Addrs : Budget("network", a) /\ new_network(a) /\ UNCHANGED loopVars
    \/ \E a \in Addrs : Budget("shield", a) /\ new_shield(a) /\ UNCHANGED loopVars
    \/ \E a \in Addrs : Budget("escrow", a) /\ new_escrow(a) /\ UNCHANGED loopVars
    \/ \E a \in Addrs : Budget("gateway", a) /\ new_gateway(a) /\ UNCHANGED loopVars
    \/ \E a \in Addrs : Budget("exchange", a) /\ new_exchange(a) /\ UNCHANGED loopVars
    \/ \E a \in Addrs : Budget("unw_eth", a) /\ new_unw_eth(a) /\ UNCHANGED loopVars
    \/ \E a \in Addrs : Budget("token", a) /\ new_token(a) /\ UNCHANGED loopVars
    \/ \E a \in Addrs : Budget("factory", a) /\ new_known_factory(a) /\ UNCHANGED loopVars

Spec == Init /\ [][Next]_vars

\* ---------------------------------------------- networks and their events

\* Networks are registered and their listeners receive ledger events:
\* balance updates, trustline updates, transfers, freezes and full syncs,
\* each stamped with the time of its block.
NextNet ==
    \/ \E a \in Addrs : Budget("network", a) /\ new_network(a) /\ UNCHANGED loopVars
    \/ \E n \in network_addresses, p \in Pairs, v \in BalanceValues, t \in NextTimes :
          /\ nevents < MaxEvents
          /\ Listening(n, "balance")
          /\ process_balance_update(
                 BlockchainEvent("BalanceUpdate", n, p[1], p[2], v, t))
          /\ now' = t
          /\ UNCHANGED hubVars
    \/ \E n \in network_addresses, p \in TrustlinePairs, v \in TrustlineValues,
          t \in NextTimes :
          /\ nevents < MaxEvents
          /\ Listening(n, "trustline")
          /\ process_trustline_update(
                 BlockchainEvent("TrustlineUpdate", n, p[1], p[2], v, t))
          /\ now' = t
          /\ UNCHANGED hubVars
    \/ \E n \in network_addresses, p \in TransferPairs, t \in NextTimes :
          /\ nevents < MaxEvents
          /\ Listening(n, "transfer")
          /\ process_transfer(BlockchainEvent("Transfer", n, p[1], p[2], 7, t))
          /\ now' = t
          /\ UNCHANGED hubVars
    \/ \E n \in network_addresses, t \in NextTimes :
          /\ nevents < MaxEvents
          /\ Listening(n, "network_freeze")
          /\ process_network_freeze(
                 BlockchainEvent("NetworkFreeze", n, None, None, 0, t))
          /\ now' = t
          /\ UNCHANGED hubVars
    \/ \E n \in ChecksumAddrs \ network_addresses, type \in StrayTypes, t \in NextTimes :
          /\ nevents < MaxEvents
          /\ stray_event(type, n, t)
          /\ now' = t
          /\ UNCHANGED hubVars
    \/ \E n \in network_addresses, t \in NextTimes : \E rep \in Snapshots(t) :
          /\ nevents < MaxEvents
          /\ Listening(n, "full_sync")
          /\ update_community(n, rep)
          /\ now' = t
          /\ UNCHANGED hubVars
    \/ \E n \in network_addresses, p \in Pairs, v \in BalanceValues, t \in StaleTimes :
          /\ nevents < MaxEvents
          /\ Listening(n, "balance")
          /\ call.op = "update_community" /\ call.args[1] = n
          /\ process_balance_update(
                 BlockchainEvent("BalanceUpdate", n, p[1], p[2], v, t))
          /\ now' = now
          /\ UNCHANGED hubVars

SpecNet == Init /\ [][NextNet]_vars

\* --------------------------------------------------- push subscriptions

\* Mappings the token store may hold from earlier runs of the relay.
InitialStores ==
    { {}, {<<"0xU1", "tok1">>}, {<<"0xU1", "tok1">>, <<"0xU2", "tok2">>},
      {<<"0xU1", "tok1">>, <<"0xU1", "tok2">>, <<"0xU2", "tok1">>} }

InitPush ==
    /\ InitRelay
    /\ token_store \in InitialStores
    /\ valid_tokens = Tokens
    /\ sources = <<>>
    /\ merged = NotMerged

\* The push service is started (or left disabled) by start(); after that
\* tokens are registered and deleted; generic clients come and go and the
\* backend changes its mind at any time.
NextPush ==
    \/ \E c \in BOOLEAN : start_push_service(c)
    \/ \E u \in PushUsers, tok \in Tokens :
          /\ started
          /\ \/ Len(subjects[u]) < MaxSubs
             \/ Len(PushSubscriptions(subjects[u], tok)) > 0
          /\ add_push_client_token(u, tok)
    \/ \E u \in PushUsers, tok \in Tokens :
          /\ started
          /\ delete_push_client_token(u, tok)
    \/ \E u \in PushUsers, g \in GenericClients : subscribe_generic(u, g)
    \/ \E g \in GenericClients : close_generic(g)
    \/ \E tok \in Tokens : backend_changes(tok)

SpecPush == InitPush /\ [][NextPush]_vars

\* ------------------------------------------------------------- fan-in

QueryUsers == {"0xU1", BadUser}
QueryTypes == {None, "Transfer"}
FromBlocks == {1}
\* None, or a number of seconds (kept as text next to None).
Timeouts == {None, "1"}

\* The model stops registering contracts that are queried after MaxSources.
SourceBudget == Cardinality(user_event_queries) < MaxSources

\* Contracts are registered; a caller asks for the events of a user; the
\* query tasks complete, raise or hang; joinall returns when all tasks have
\* finished or the deadline has passed. One accepted call is followed from
\* its start to the completion of its last task.
NextFanIn ==
    \/ \E a \in ChecksumAddrs : SourceBudget /\ new_network(a) /\ UNCHANGED loopVars
    \/ \E a \in {"0xC1"} : SourceBudget /\ new_unw_eth(a) /\ UNCHANGED loopVars
    \/ \E a \in {"0xC1"} : SourceBudget /\ new_exchange(a) /\ UNCHANGED loopVars
    \/ \E a \in {"0xC1"} : SourceBudget /\ new_escrow(a) /\ UNCHANGED loopVars
    \/ \E u \in QueryUsers, ty \in QueryTypes, fb \in FromBlocks, to \in Timeouts :
          /\ pc = "idle"
          /\ get_user_events(u, ty, fb, to)
    \/ \E u \in QueryUsers, ty \in QueryTypes, fb \in FromBlocks, to \in Timeouts :
          /\ pc = "idle"
          /\ get_all_user_exchange_events(u, ty, fb, to)
    \/ \E src \in DOMAIN tasks : task_completes(src)
    \/ \E src \in DOMAIN tasks : task_raises(src)
    \/ all_tasks_finished
    \/ deadline_expires

\* The scheduler runs the waiting caller once its wait is over.
SpecFanIn ==
    /\ Init
    /\ [][NextFanIn]_vars
    /\ WF_vars(all_tasks_finished)
    /\ WF_vars(deadline_expires)

\* -------------------------------------------------------------- merge

\* Ordering positions (block number, log index) of the ledger.
LogPositions == {<<1, 0>>, <<1, 1>>, <<2, 0>>}
LogTypes == {"Transfer", "TrustlineUpdate"}

\* What a contract can log at the positions.
LogEntries ==
    {[blocknumber |-> pos[1], log_index |-> pos[2], type |-> type] :
        pos \in LogPositions, type \in LogTypes}

\* A contract's log read in its own order, so by strictly increasing
\* (block number, log index).
LogSequences ==
    {entries \in UNION {[1..n -> LogEntries] : n \in 0..MaxLen} :
        \A i \in 1..(Len(entries) - 1) :
            \/ entries[i].blocknumber < entries[i + 1].blocknumber
            \/ /\ entries[i].blocknumber = entries[i + 1].blocknumber
               /\ entries[i].log_index < entries[i + 1].log_index}

\* The answer of the source with the given number: its events carry its
\* address.
SourceAnswer(source, entries) ==
    [i \in DOMAIN entries |->
        LogEvent(source, entries[i].blocknumber, entries[i].log_index,
                 entries[i].type)]

\* The answers of NumSources sources.
InitMerge ==
    /\ InitRelay
    /\ token_store = {}
    /\ valid_tokens = {}
    /\ sources \in {[i \in 1..NumSources |-> SourceAnswer(i, logs[i])] :
                      logs \in [1..NumSources -> LogSequences]}
    /\ merged = NotMerged

\* The answers are concatenated and sorted as get_user_events does it.
merge_sorted ==
    /\ ~merged.called
    /\ merged' = [called |-> TRUE, result |-> user_events_result(sources)]
    /\ call' = Call("sorted_events", <<>>, "ok")
    /\ UNCHANGED <<regVars, pushVars, netVars, fanVars, loopVars, hubVars, sources>>

NextMerge == merge_sorted

SpecMerge == InitMerge /\ [][NextMerge]_vars

\* ---------------------------------------------------- the discovery loop

\* listen() without its except clause: the error ends the greenlet.
listen_no_except ==
    /\ loop_pc' = "dead"
    /\ todo' = <<>>
    /\ last_pass' = "error"

\* The except clause of listen(): the error is logged and the loop goes on
\* to its sleep.
listen_except ==
    /\ loop_pc' = "sleeping"
    /\ todo' = <<>>
    /\ last_pass' = "error"

\* A call of the pass raised before changing anything.
pass_raises(op, arg, error) ==
    /\ call' = Call(op, <<arg, FALSE>>, error)
    /\ listen_except
    /\ UNCHANGED <<regVars, pushVars, netVars, fanVars, mergeVars, hubVars>>

\* _load_addresses without the except clause around json.loads
load_addresses_json_error_raises ==
    /\ loop_pc = "sleeping"
    /\ passes' = 1 - passes
    /\ pass_manifest' = manifest
    /\ IF manifest.status = "missing"
       THEN pass_raises("_load_addresses", None, "FileNotFoundError")
       ELSE IF manifest.status = "not_json"
       THEN pass_raises("_load_addresses", None, "JSONDecodeError")
       ELSE /\ todo' = load_addresses_calls(manifest)
            /\ loop_pc' = "loading"
            /\ call' = Call("_load_addresses", <<None, FALSE>>, "reading")
            /\ UNCHANGED last_pass
            /\ UNCHANGED <<regVars, pushVars, netVars, fanVars, mergeVars, hubVars>>
    /\ UNCHANGED <<manifest, node_up, suspended>>

\* The sleep is over: _load_addresses opens and reads the file.
load_addresses ==
    /\ loop_pc = "sleeping"
    /\ passes' = 1 - passes
    /\ pass_manifest' = manifest
    /\ IF manifest.status = "missing"
       THEN pass_raises("_load_addresses", None, "FileNotFoundError")
       ELSE /\ todo' = load_addresses_calls(manifest)
            /\ loop_pc' = "loading"
            /\ call' = Call("_load_addresses", <<None, FALSE>>, "reading")
            /\ UNCHANGED last_pass
            /\ UNCHANGED <<regVars, pushVars, netVars, fanVars, mergeVars, hubVars>>
    /\ UNCHANGED <<manifest, node_up, suspended>>

\* The registration call of a kind.
new_of_kind(kind, address) ==
    CASE kind = "network" -> new_network(address)
      [] kind = "shield" -> new_shield(address)
      [] kind = "gateway" -> new_gateway(address)
      [] kind = "escrow" -> new_escrow(address)
      [] kind = "exchange" -> new_exchange(address)
      [] kind = "unw_eth" -> new_unw_eth(address)
      [] kind = "factory" -> new_known_factory(address)

\* The call constructs a proxy, which queries the node.
constructs_proxy(kind, address) ==
    /\ kind # "factory"
    /\ is_checksum_address(address)
    /\ address \notin Registered(kind)

\* The next registration of the running pass. Every entry but those of
\* identityProxyFactory goes through to_checksum_address first; whatever is
\* raised leaves _load_addresses and skips the entries not yet reached.
load_addresses_step ==
    /\ loop_pc = "loading"
    /\ todo # <<>>
    /\ LET kind == Head(todo)[1]
           entry == Head(todo)[2]
       IN IF kind # "factory" /\ ~is_address(entry)
          THEN pass_raises("to_checksum_address", entry, "ValueError")
          ELSE LET address == IF kind = "factory" THEN entry
                              ELSE to_checksum_address(entry)
               IN IF constructs_proxy(kind, address) /\ ~node_up
                  THEN pass_raises("new_" \o kind, address, "ConnectionError")
                  ELSE /\ new_of_kind(kind, address)
                       /\ IF call'.result = "ok"
                          THEN /\ todo' = Tail(todo)
                               /\ UNCHANGED <<loop_pc, last_pass>>
                          ELSE listen_except
    /\ UNCHANGED <<manifest, node_up, pass_manifest, passes, suspended>>

\* _load_addresses returns; the loop goes on to its sleep.
load_addresses_returns ==
    /\ loop_pc = "loading"
    /\ todo = <<>>
    /\ loop_pc' = "sleeping"
    /\ last_pass' = "ok"
    /\ call' = Call("_load_addresses", <<None, FALSE>>, "ok")
    /\ UNCHANGED <<manifest, node_up, todo, pass_manifest, passes, suspended>>
    /\ UNCHANGED <<regVars, pushVars, netVars, fanVars, mergeVars, hubVars>>

\* The operator rewrites the addresses file. A pass works on the content it
\* read when it started, so a rewrite during a pass shows as one after it.
edit_manifest(addresses) ==
    /\ loop_pc = "sleeping"
    /\ manifest # addresses
    /\ manifest' = addresses
    /\ UNCHANGED <<node_up, loop_pc, todo, last_pass, pass_manifest, passes, suspended>>
    /\ UNCHANGED <<regVars, pushVars, netVars, fanVars, mergeVars, hubVars, call>>

\* The node becomes unreachable or reachable again.
node_changes ==
    /\ node_up' = ~node_up
    /\ UNCHANGED <<manifest, loop_pc, todo, last_pass, pass_manifest, passes, suspended>>
    /\ UNCHANGED <<regVars, pushVars, netVars, fanVars, mergeVars, hubVars, call>>

NextLoop ==
    \/ load_addresses
    \/ load_addresses_step
    \/ load_addresses_returns
    \/ \E addresses \in Manifests : edit_manifest(addresses)
    \/ node_changes

\* The scheduler runs the loop's greenlet whenever it can run, and its sleep
\* ends.
LoopFairness ==
    /\ WF_vars(load_addresses)
    /\ WF_vars(load_addresses_step)
    /\ WF_vars(load_addresses_returns)

SpecLoop == Init /\ [][NextLoop]_vars /\ LoopFairness

\* The discovery loop while the listeners of the registered networks hand
\* trustline updates to their callback.
NextGrow ==
    \/ NextLoop
    \/ \E n \in network_addresses, p \in {<<"0xU2", "0xU1">>}, v \in TrustlineValues,
          t \in NextTimes :
          /\ nevents < MaxEvents
          /\ Listening(n, "trustline")
          /\ process_trustline_update(
                 BlockchainEvent("TrustlineUpdate", n, p[1], p[2], v, t))
          /\ now' = t
          /\ UNCHANGED hubVars

SpecGrow == Init /\ [][NextGrow]_vars

\* ------------------------------------------------------- the fan-out hub
\* The listener tasks of the proxies (relay/blockchain/proxy.py) and
\* Subject.publish (relay/streams.py) are not part of src/; they are
\* modelled from spec.md sections 4.4 and 5: one listener per contract
\* instance hands the events of its source to the attached callbacks in
\* the order the source emits them, tasks are scheduled cooperatively, and a
\* task is suspended while a delivery to the push backend is in flight.

\* The callback a ledger event is handed to.
CallbackOf(type) ==
    CASE type = "BalanceUpdate" -> "balance"
      [] type = "TrustlineUpdate" -> "trustline"
      [] type = "Transfer" -> "transfer"

\* The handler attached for the event.
handler(ev) ==
    CASE ev.type = "BalanceUpdate" -> process_balance_update(ev)
      [] ev.type = "TrustlineUpdate" -> process_trustline_update(ev)
      [] ev.type = "Transfer" -> process_transfer(ev)

\* A task holds the processor while it runs a handler that is not waiting
\* for the push backend.
HoldsCpu(k) == handlers[k].busy /\ ~handlers[k].awaiting
CpuFree == \A k \in DOMAIN handlers : ~HoldsCpu(k)

\* The listener of a contract instance runs one callback at a time.
listener_ready_per_callback(n, name) == ~handlers[<<n, name>>].busy

listener_ready(n, name) == \A other \in HandlerNames : ~handlers[<<n, other>>].busy

\* Types of the events the ledger of a network emits.
LedgerEventTypes(n) ==
    IF n = "0xC1" THEN {"TrustlineUpdate", "BalanceUpdate"} ELSE {"Transfer"}

\* The event of the type a ledger emits.
LedgerEvent(type, n) ==
    CASE type = "TrustlineUpdate" ->
           BlockchainEvent("TrustlineUpdate", n, "0xU2", "0xU1",
               [creditline_given |-> 1000, creditline_received |-> 800,
                interest_rate_given |-> 10, interest_rate_received |-> 30], now)
      [] type = "BalanceUpdate" ->
           BlockchainEvent("BalanceUpdate", n, "0xU1", "0xU2", 500, now)
      [] type = "Transfer" ->
           BlockchainEvent("Transfer", n, "0xU1", "0xU2", 7, now)

\* The ledger of a tracked network emits an event. The listeners take the
\* events when they are scheduled, so the events are emitted first here.
ledger_emits(n, ev) ==
    /\ n \in network_addresses
    /\ next_id < MaxLedgerEvents
    /\ applied = <<>>
    /\ next_id' = next_id + 1
    /\ ledger' = [ledger EXCEPT ![n] = Append(@, [id |-> next_id + 1, ev |-> ev])]
    /\ UNCHANGED <<handlers, applied, publications, deliveries>>
    /\ UNCHANGED <<regVars, pushVars, netVars, fanVars, mergeVars, loopVars, call>>

\* The listener hands the oldest event of its source to the callback: the
\* handler updates the mirror and has its events to publish.
listener_takes(n) ==
    /\ ledger[n] # <<>>
    /\ CpuFree
    /\ LET item == Head(ledger[n])
           name == CallbackOf(item.ev.type)
       IN /\ Listening(n, name)
          /\ listener_ready(n, name)
          /\ handler(item.ev)
          /\ handlers' = [handlers EXCEPT ![<<n, name>>] =
                 [busy |-> TRUE, id |-> item.id, seq |-> 1, outbox |-> emitted',
                  publishing |-> FALSE, targets |-> <<>>, registry |-> <<>>,
                  awaiting |-> FALSE]]
          /\ applied' = Append(applied, [instance |-> n, id |-> item.id])
    /\ ledger' = [ledger EXCEPT ![n] = Tail(@)]
    /\ UNCHANGED <<now, next_id, publications, deliveries, loopVars>>

\* _publish_user_event without regard to the event's user
publish_user_event_first_subject(event) == subjects["0xU1"]

\* _publish_user_event: the subject of the event's user publishes it; the
\* value is the list of subscriptions it notifies, in registration order.
publish_user_event(event) == subjects[event.user]

\* a handler that returns after the first event it published
next_event_first_only(h) == Idle

\* The loops of _publish_blockchain_event and _publish_trustline_events:
\* the next event is published; after the last one the handler returns.
next_event(h) ==
    IF Len(h.outbox) > 1
    THEN [h EXCEPT !.targets = <<>>, !.publishing = FALSE, !.outbox = Tail(@),
                   !.seq = @ + 1, !.registry = <<>>, !.awaiting = FALSE]
    ELSE Idle

\* Subject.publish after a delivery, failed or not: a failure is logged and
\* the next subscriber is notified all the same; after the last subscriber
\* publish returns to the handler.
notified(h, ok) ==
    IF Len(h.targets) > 1 THEN [h EXCEPT !.targets = Tail(@), !.awaiting = FALSE]
    ELSE next_event(h)

\* A delivery as the log keeps it: the client notified, the event and its
\* place among the events of its handler, the ledger event handled, and the
\* subscriptions as they were when the event was published.
Delivery(k, h, ok) ==
    [client |-> Head(h.targets).client, instance |-> k[1], id |-> h.id,
     seq |-> h.seq, event |-> Head(h.outbox), registry |-> h.registry, ok |-> ok]

Failures == Cardinality({i \in 1..Len(deliveries) : ~deliveries[i].ok})

\* Outcomes a delivery may have.
Outcomes == IF Failures < MaxFailures THEN BOOLEAN ELSE {TRUE}

\* The running handler takes its next step: it publishes the next event of
\* its outbox to the subject of the event's user, or notifies the next
\* subscriber; notifying a push client starts a request to the push backend.
handler_runs(k) ==
    /\ HoldsCpu(k)
    /\ LET h == handlers[k]
       IN IF ~h.publishing
          THEN /\ handlers' = [handlers EXCEPT ![k] =
                      IF publish_user_event(Head(h.outbox)) = <<>>
                      THEN next_event(h)
                      ELSE [h EXCEPT !.publishing = TRUE, !.registry = subjects,
                                     !.targets = publish_user_event(Head(h.outbox))]]
               /\ publications' = Append(publications,
                      [id |-> h.id, seq |-> h.seq, event |-> Head(h.outbox),
                       last |-> h.seq + Len(h.outbox) - 1, registry |-> subjects])
               /\ UNCHANGED deliveries
          ELSE IF Head(h.targets).client.kind = "push"
          THEN /\ handlers' = [handlers EXCEPT ![k].awaiting = TRUE]
               /\ UNCHANGED <<publications, deliveries>>
          ELSE \E ok \in Outcomes :
                  /\ deliveries' = Append(deliveries, Delivery(k, h, ok))
                  /\ handlers' = [handlers EXCEPT ![k] = notified(h, ok)]
                  /\ UNCHANGED publications
    /\ UNCHANGED <<ledger, next_id, applied>>
    /\ UNCHANGED <<regVars, pushVars, netVars, fanVars, mergeVars, loopVars, call>>

\* The push backend answers: the suspended handler goes on.
push_delivery_completes(k, ok) ==
    /\ handlers[k].awaiting
    /\ CpuFree
    /\ deliveries' = Append(deliveries, Delivery(k, handlers[k], ok))
    /\ handlers' = [handlers EXCEPT ![k] = notified(handlers[k], ok)]
    /\ UNCHANGED <<ledger, next_id, applied, publications>>
    /\ UNCHANGED <<regVars, pushVars, netVars, fanVars, mergeVars, loopVars, call>>

\* Mappings the token store holds when the hub starts.
InitHub ==
    /\ InitRelay
    /\ token_store = {<<"0xU1", "tok1">>}
    /\ valid_tokens = Tokens
    /\ sources = <<>>
    /\ merged = NotMerged

\* Networks are registered and the push service is started; ledgers emit
\* events, listeners hand them to the handlers, the handlers publish;
\* generic clients subscribe, and close their connection at any time a
\* handler waits for the push backend.
NextHub ==
    \/ CpuFree /\ start_push_service(TRUE)
    \/ \E a \in ChecksumAddrs :
          /\ started /\ next_id = 0 /\ a \notin network_addresses
          /\ new_network(a) /\ UNCHANGED loopVars
    \/ \E n \in ChecksumAddrs : \E type \in LedgerEventTypes(n) :
          ledger_emits(n, LedgerEvent(type, n))
    \/ \E n \in ChecksumAddrs : listener_takes(n)
    \/ \E k \in DOMAIN handlers : handler_runs(k)
    \/ \E k \in DOMAIN handlers : \E ok \in Outcomes : push_delivery_completes(k, ok)
    \/ \E u \in PushUsers, g \in GenericClients :
          /\ next_id = 0
          /\ Len(subjects[u]) < MaxHubSubs
          /\ subscribe_generic(u, g)
    \/ \E g \in GenericClients : CpuFree /\ close_generic(g)

SpecHub == InitHub /\ [][NextHub]_vars

\* ------------------------------------------- interleaved registrations

\* The tasks that call new_network: the discovery loop and another caller
\* of the public method.
RegistrationTasks == {"listen", "caller"}

\* Registrations of networks by two tasks; a call returns at once when the
\* constructor gets its answers without waiting, and is suspended in the
\* constructor otherwise. Events of registered networks arrive meanwhile.
NextRace ==
    \/ \E a \in Addrs : new_network(a) /\ UNCHANGED loopVars
    \/ \E task \in RegistrationTasks, a \in Addrs : new_network_suspends(task, a)
    \/ \E task \in RegistrationTasks, a \in Addrs : new_network_resumes(task, a)
    \/ \E n \in network_addresses, p \in TrustlinePairs, v \in TrustlineValues,
          t \in NextTimes :
          /\ nevents < MaxEvents
          /\ process_trustline_update(
                 BlockchainEvent("TrustlineUpdate", n, p[1], p[2], v, t))
          /\ now' = t
          /\ UNCHANGED hubVars

SpecRace == Init /\ [][NextRace]_vars

\* ------------------------------------------------------- event selectors

\* Addresses the API asks selectors for.
SelectorAddrs == {"0xC1", "0xC2"}

\* Contracts of every kind are registered and the API asks for the event
\* selector of a kind and address, with the event index on or off.
NextSelect ==
    \/ \E a \in {"0xC1"} : new_network(a) /\ UNCHANGED loopVars
    \/ \E a \in SelectorAddrs : new_shield(a) /\ UNCHANGED loopVars
    \/ \E a \in SelectorAddrs : new_gateway(a) /\ UNCHANGED loopVars
    \/ \E a \in {"0xC1"} : new_escrow(a) /\ UNCHANGED loopVars
    \/ \E a \in {"0xC1"} : new_exchange(a) /\ UNCHANGED loopVars
    \/ \E a \in {"0xC1"} : new_unw_eth(a) /\ UNCHANGED loopVars
    \/ \E a \in {"0xC1"} : new_token(a) /\ UNCHANGED loopVars
    \/ \E kind \in SelectorKinds, a \in SelectorAddrs, use_eth_index \in BOOLEAN :
          get_event_selector(kind, a, use_eth_index)

SpecSelect == Init /\ [][NextSelect]_vars

\* -------------------------------------------------------- fan-in claims

\* Tasks whose output joinall collected before it returned.
Answered == {src \in DOMAIN tasks : tasks[src] = "done"}

\* What the task of a source returns for the call in progress.
OutputOf(src) == QueryOutput(src, query_call.args[2], query_call.args[3])

EventsOf(events) == {events[i] : i \in DOMAIN events}

AnsweredEvents == UNION {EventsOf(OutputOf(src)) : src \in Answered}

WithDeadline == query_call.args[4] # None

ReturnedExactlyAnswered ==
    (pc = "returned" /\ WithDeadline) =>
        /\ EventsOf(ret) = AnsweredEvents
        /\ Len(ret) = Cardinality(AnsweredEvents)

LateCompletionKeepsResult ==
    (pc = "returned" /\ pc' = "returned") => ret' = ret

ReturnsAtDeadline == (pc = "waiting" /\ WithDeadline) ~> (pc = "returned")

\* C7: a call with a deadline returns even when a task never completes; the
\* result holds exactly the events of the tasks that completed before the
\* return; a task completing later does not change the returned result.
C7_DeadlineBoundsFanIn ==
    /\ [](ReturnedExactlyAnswered)
    /\ [][LateCompletionKeepsResult]_vars
    /\ ReturnsAtDeadline

\* A call with a deadline has returned the events of one task while another
\* task completed after the return and a third never completed.
C7_Witness ==
    /\ pc = "returned"
    /\ WithDeadline
    /\ ret # <<>>
    /\ \E s1, s2, s3 \in DOMAIN tasks :
          /\ tasks[s1] = "done"
          /\ tasks[s2] = "done_late"
          /\ tasks[s3] = "running"
          /\ OutputOf(s2) # <<>>

\* C8: when tasks raise the call still returns normally; a task that raised
\* contributes no event and every task that completed contributes all of its
\* events.
C8_RaisingTasksAreEmpty ==
    pc = "returned" =>
        /\ query_call.result = "ok"
        /\ \A src \in DOMAIN tasks :
              /\ tasks[src] = "done" => EventsOf(OutputOf(src)) \subseteq EventsOf(ret)
              /\ tasks[src] = "raised" => EventsOf(SourceLog(src)) \cap EventsOf(ret) = {}

\* Two tasks completed with events and one raised.
C8_Witness ==
    /\ pc = "returned"
    /\ \E s1, s2, s3 \in DOMAIN tasks :
          /\ s1 # s2
          /\ tasks[s1] = "done" /\ OutputOf(s1) # <<>>
          /\ tasks[s2] = "done" /\ OutputOf(s2) # <<>>
          /\ tasks[s3] = "raised" /\ OutputOf(s3) # <<>>

\* Every order in which the tasks of a set of sources can complete.
CompletionOrders(srcs) ==
    {p \in [1..Cardinality(srcs) -> srcs] :
        \A i, j \in 1..Cardinality(srcs) : i # j => p[i] # p[j]}

\* The value returned when the tasks complete in the given order.
ResultFor(order) == user_events_result([i \in DOMAIN order |-> OutputOf(order[i])])

Keys(events) == [i \in DOMAIN events |-> order_key(events[i])]

Ordered(events) ==
    \A i \in 1..(Len(events) - 1) :
        ~KeyLess(order_key(events[i + 1]), order_key(events[i]))

\* Two sources returned events with the same block, log index and type.
SharedKey(srcs) ==
    \E s1, s2 \in srcs :
        /\ s1 # s2
        /\ \E e1 \in EventsOf(OutputOf(s1)), e2 \in EventsOf(OutputOf(s2)) :
              order_key(e1) = order_key(e2)

SourceOrders ==
    {p \in [1..NumSources -> 1..NumSources] :
        \A i, j \in 1..NumSources : i # j => p[i] # p[j]}

\* The merge of the sources taken in the given order.
MergeOf(order) == user_events_result([i \in 1..NumSources |-> sources[order[i]]])

\* The result is a sort of the concatenation: ordered, with the same events.
SortOfConcatenation ==
    LET all == chain_from_iterable(sources)
    IN /\ Ordered(merged.result)
       /\ Len(merged.result) = Len(all)
       /\ EventsOf(merged.result) = EventsOf(all)

\* Two sources hold events with the same block, log index and type.
SourcesShareKey ==
    \E i, j \in 1..NumSources :
        /\ i # j
        /\ \E e1 \in EventsOf(sources[i]), e2 \in EventsOf(sources[j]) :
              order_key(e1) = order_key(e2)

\* Two sources hold events with the same block and log index.
SourcesSharePosition ==
    \E i, j \in 1..NumSources :
        /\ i # j
        /\ \E e1 \in EventsOf(sources[i]), e2 \in EventsOf(sources[j]) :
              /\ e1.blocknumber = e2.blocknumber
              /\ e1.log_index = e2.log_index

\* C10 as stated: the merge is a sort of the concatenation and is the same
\* for every permutation of the sources.
C10_MergeIndependentOfSourceOrder ==
    merged.called =>
        /\ SortOfConcatenation
        /\ \A order \in SourceOrders : MergeOf(order) = merged.result

\* C10: the merge is a sort of the concatenation by (block, log index, type
\* name); its sequence of ordering keys is the same for every permutation of
\* the sources, and so is the sequence itself unless two sources hold events
\* with the same block, log index and type.
C10_MergeSortsConcatenation ==
    merged.called =>
        /\ SortOfConcatenation
        /\ \A order \in SourceOrders :
              LET permuted == MergeOf(order)
              IN /\ Keys(permuted) = Keys(merged.result)
                 /\ ~SourcesShareKey => permuted = merged.result

\* Sources sharing a block and log index, with different types there, were
\* merged into a sequence that is not their concatenation.
C10_Witness ==
    /\ merged.called
    /\ SourcesSharePosition
    /\ ~SourcesShareKey
    /\ merged.result # chain_from_iterable(sources)
    /\ \A i \in 1..NumSources : sources[i] # <<>>

\* ------------------------------------------------------- registry claims

RegistrationOps == {"new_network", "new_shield", "new_escrow", "new_gateway",
                    "new_exchange", "new_unw_eth", "new_token",
                    "new_known_factory"}

KindOf(op) ==
    CASE op = "new_network" -> "network"
      [] op = "new_shield" -> "shield"
      [] op = "new_escrow" -> "escrow"
      [] op = "new_gateway" -> "gateway"
      [] op = "new_exchange" -> "exchange"
      [] op = "new_unw_eth" -> "unw_eth"
      [] op = "new_token" -> "token"
      [] op = "new_known_factory" -> "factory"

\* Addresses that hold a proxy (or a list entry) of the kind.
Holding(kind) ==
    IF kind = "token" THEN DOMAIN token_proxies ELSE Registered(kind)

ExpectedListeners(kind) ==
    CASE kind = "network" -> NetworkListeners
      [] kind = "escrow" -> EscrowListeners
      [] kind = "gateway" -> GatewayListeners
      [] OTHER -> <<>>

Occurrences(list, x) == Cardinality({i \in 1..Len(list) : list[i] = x})

\* Every registered address was given exactly one proxy and exactly one set
\* of listeners; every other address none.
OneProxyOneListenerSet ==
    \A kind \in AllKinds, a \in Addrs :
        IF kind = "factory"
        THEN Occurrences(known_identity_factories, a) <= 1
        ELSE IF a \in Holding(kind)
        THEN /\ proxies_created[<<kind, a>>] = 1
             /\ listeners[<<kind, a>>] = ExpectedListeners(kind)
        ELSE /\ proxies_created[<<kind, a>>] = 0
             /\ listeners[<<kind, a>>] = <<>>

\* A step that is a registration call for an address already registered
\* under the kind changes no registry and no listener set.
RepeatIsNoOp ==
    (/\ call'.op \in RegistrationOps
     /\ call'.args[1] \in Registered(KindOf(call'.op)))
    => UNCHANGED <<regVars, pushVars>>

\* C1: for every contract kind, new_<kind>(a) for an address a already
\* registered under that kind is a no-op (registry unchanged, no second
\* proxy, no further listeners), so every registered address has exactly
\* one proxy and exactly one set of listeners.
C1_RegistrationIdempotent ==
    [](OneProxyOneListenerSet) /\ [][RepeatIsNoOp]_vars

\* C1 witness: a repeated new_network call for a registered network happened.
C1_Witness ==
    /\ call.op = "new_network"
    /\ call.args[2] = TRUE
    /\ call.args[1] \in network_addresses
    /\ TotalCreated >= 2

\* C2: new_<kind>(a) with an address a that is not in canonical checksum form
\* fails, and every registry and every listener set is what it was before.
C2_MalformedAddressRejected ==
    [][(/\ call'.op \in RegistrationOps
        /\ ~is_checksum_address(call'.args[1]))
       => (/\ call'.result = "AssertionError"
           /\ UNCHANGED <<regVars, pushVars>>)]_vars

\* C2 witness: a registration with a malformed address was rejected while
\* the registries already held entries.
C2_Witness ==
    /\ call.op \in RegistrationOps
    /\ ~is_checksum_address(call.args[1])
    /\ call.result = "AssertionError"
    /\ TotalCreated >= 2

\* -------------------------------------------------------- network claims

\* The freeze handler leaves the flag of its network set.
FreezeSetsFlag ==
    (call.op = "process_network_freeze" /\ call.result = "ok")
    => currency_network_proxies[call.args[1].network_address].is_frozen

\* A network that is frozen is still registered and frozen after the step.
FrozenStaysFrozen ==
    \A n \in network_addresses :
        currency_network_proxies[n].is_frozen
        => /\ n \in DOMAIN currency_network_proxies'
           /\ currency_network_proxies'[n].is_frozen

\* C3: once a NetworkFreeze event has been processed for a network, its
\* is_frozen flag is true in every later state: no balance update, trustline
\* update, full sync, further freeze or re-registration sets it back.
C3_FreezeMonotonic ==
    [](FreezeSetsFlag) /\ [][FrozenStaysFrozen]_vars

\* C3 witness: a frozen network was registered again after two ledger events.
C3_Witness ==
    /\ call.op = "new_network"
    /\ call.args[2] = TRUE
    /\ currency_network_proxies[call.args[1]].is_frozen
    /\ nevents >= 2

\* C4: processing one balance update for (A, B) at timestamp t produces
\* exactly four derived events, in the order BalancePosition(A->B),
\* BalancePosition(B->A), NetworkPosition(A), NetworkPosition(B), each stamped
\* with t and carrying account_sum at t on the mirror after the update.
C4_FourDerivedEvents ==
    (call.op = "process_balance_update" /\ call.result = "ok") =>
        LET ev == call.args[1]
            n == ev.network_address
            A == ev.from_
            B == ev.to
            t == ev.timestamp
            g == currency_network_graphs[n]
        IN emitted =
             << [type |-> "BalanceUpdate", network_address |-> n, user |-> A,
                 from_ |-> A, to |-> B, timestamp |-> t,
                 value |-> get_account_sum(g, A, B, t)],
                [type |-> "BalanceUpdate", network_address |-> n, user |-> B,
                 from_ |-> B, to |-> A, timestamp |-> t,
                 value |-> get_account_sum(g, B, A, t)],
                [type |-> "NetworkBalance", network_address |-> n, user |-> A,
                 from_ |-> None, to |-> None, timestamp |-> t,
                 value |-> get_account_sum(g, A, None, t)],
                [type |-> "NetworkBalance", network_address |-> n, user |-> B,
                 from_ |-> None, to |-> None, timestamp |-> t,
                 value |-> get_account_sum(g, B, None, t)] >>

\* C4 witness: a balance update was processed at a time after the start on a
\* network where A has a second edge that accrued interest, so that its
\* network position differs from its position towards B.
C4_Witness ==
    /\ call.op = "process_balance_update"
    /\ Len(emitted) = 4
    /\ call.args[1].timestamp >= 1
    /\ emitted[1].value = 500
    /\ emitted[2].value = -500
    /\ emitted[3].value = 830

\* ----------------------------------------------------------- push claims

\* C5: with the push service enabled and a token that validates, any number
\* of add_push_client_token(addr, tok) calls, interleaved with other
\* registrations, leaves exactly one push subscription for (addr, tok) in the
\* event subject registry and exactly one in the messaging registry.
C5_PushRegistrationIdempotent ==
    /\ \A u \in PushUsers, tok \in Tokens :
          /\ Len(PushSubscriptions(subjects[u], tok)) <= 1
          /\ Len(PushSubscriptions(messaging[u], tok)) <= 1
    /\ (/\ call.op = "add_push_client_token"
        /\ call.result = "ok"
        /\ firebase_raw_push_service)
       => /\ Len(PushSubscriptions(subjects[call.args[1]], call.args[2])) = 1
          /\ Len(PushSubscriptions(messaging[call.args[1]], call.args[2])) = 1

\* C5 witness: a token was registered again for an address that already had
\* it, next to another token of the same address.
C5_Witness ==
    /\ call.op = "add_push_client_token"
    /\ call.result = "ok"
    /\ call.args[3] = TRUE
    /\ firebase_raw_push_service
    /\ Len(subjects[call.args[1]]) >= 2
    /\ Len(messaging[call.args[1]]) >= 2

\* The step is a delete_push_client_token call for a token without a push
\* subscription under the address.
DeleteOfUnknownToken ==
    /\ call'.op = "delete_push_client_token"
    /\ Len(PushSubscriptions(subjects[call'.args[1]], call'.args[2])) = 0

FailsAndKeepsSubscriptions ==
    /\ call'.result = "TokenNotFoundException"
    /\ UNCHANGED <<subjects, messaging>>

\* C6 as stated: unsubscribing a token that has no push subscription under
\* the address fails with TokenNotFound and keeps every subscription.
C6_UnknownTokenFails ==
    [][DeleteOfUnknownToken => FailsAndKeepsSubscriptions]_vars

\* C6 as amended: with the push service enabled, unsubscribing a token that
\* has no push subscription under the address fails with TokenNotFound and
\* keeps every subscription, push or generic, of every address.
C6_UnknownTokenFailsWhenEnabled ==
    [][(firebase_raw_push_service /\ DeleteOfUnknownToken)
       => FailsAndKeepsSubscriptions]_vars

\* C6 witness: the deletion of an unknown token failed while the address held
\* a push subscription for another token and a generic subscription.
C6_Witness ==
    /\ call.op = "delete_push_client_token"
    /\ call.result = "TokenNotFoundException"
    /\ \E i, j \in 1..Len(subjects[call.args[1]]) :
          /\ subjects[call.args[1]][i].client.kind = "push"
          /\ subjects[call.args[1]][j].client.kind = "generic"
    /\ Len(messaging[call.args[1]]) >= 1

\* The step is an add_push_client_token call for the address and token.
AddOf(u, tok) ==
    /\ call'.op = "add_push_client_token"
    /\ call'.args[1] = u
    /\ call'.args[2] = tok

\* C11: with the push service enabled, add_push_client_token for a token the
\* backend rejects fails with InvalidClientToken, leaves the event and the
\* messaging registry as they were and adds no mapping to the token store.
C11_RejectedTokenRegistersNothing ==
    [][\A u \in PushUsers, tok \in Tokens :
          (AddOf(u, tok) /\ firebase_raw_push_service /\ ~check_client_token(tok))
          => /\ call'.result = "InvalidClientTokenException"
             /\ UNCHANGED <<subjects, messaging, token_store>>]_vars

\* C11 witness: a rejected token was refused for an address that has neither
\* a subscription nor a stored mapping for it.
C11_Witness ==
    /\ call.op = "add_push_client_token"
    /\ call.result = "InvalidClientTokenException"
    /\ firebase_raw_push_service
    /\ <<call.args[1], call.args[2]>> \notin token_store
    /\ PushSubscriptions(subjects[call.args[1]], call.args[2]) = <<>>
    /\ PushSubscriptions(messaging[call.args[1]], call.args[2]) = <<>>

\* C12: add_push_client_token for a valid token whose mapping is already in
\* the token store ends without error, with the subscription active in both
\* registries and the mapping still stored once.
C12_StoredTokenAddedAgain ==
    [][\A u \in PushUsers, tok \in Tokens :
          (/\ AddOf(u, tok)
           /\ firebase_raw_push_service
           /\ check_client_token(tok)
           /\ <<u, tok>> \in token_store)
          => /\ call'.result = "ok"
             /\ Len(PushSubscriptions(subjects'[u], tok)) = 1
             /\ Len(PushSubscriptions(messaging'[u], tok)) = 1
             /\ token_store' = token_store]_vars

\* C12 witness: a token with a stored mapping and an active subscription was
\* added again.
C12_Witness ==
    /\ call.op = "add_push_client_token"
    /\ call.result = "ok"
    /\ call.args[3] = TRUE
    /\ firebase_raw_push_service
    /\ <<call.args[1], call.args[2]>> \in token_store
    /\ Cardinality(token_store) >= 2

\* The step is the start of the push service with credentials configured.
Bootstrap == ~started /\ started' /\ firebase_raw_push_service'

\* C13: after the bootstrap every stored pair whose token validates has one
\* push subscription in each registry and is still stored; every stored pair
\* whose token is rejected has no subscription and is no longer stored.
C13_BootstrapRestoresValidTokens ==
    [][Bootstrap =>
          \A m \in token_store :
              IF check_client_token(m[2])
              THEN /\ Len(PushSubscriptions(subjects'[m[1]], m[2])) = 1
                   /\ Len(PushSubscriptions(messaging'[m[1]], m[2])) = 1
                   /\ m \in token_store'
              ELSE /\ PushSubscriptions(subjects'[m[1]], m[2]) = <<>>
                   /\ PushSubscriptions(messaging'[m[1]], m[2]) = <<>>
                   /\ m \notin token_store']_vars

\* C13 witness: the bootstrap restored the subscriptions of a token stored
\* for two addresses and dropped the mapping of a rejected token.
C13_Witness ==
    /\ call.op = "start_push_service"
    /\ firebase_raw_push_service
    /\ token_store = {<<"0xU1", "tok1">>, <<"0xU2", "tok1">>}
    /\ "tok2" \notin valid_tokens
    /\ Len(PushSubscriptions(subjects["0xU1"], "tok1")) = 1
    /\ Len(PushSubscriptions(subjects["0xU2"], "tok1")) = 1
    /\ PushSubscriptions(subjects["0xU1"], "tok2") = <<>>

\* The subscriptions of the list other than the push subscriptions of the
\* token.
WithoutToken(list, client_token) ==
    SelectSeq(list, LAMBDA sub : ~IsPushFor(sub, client_token))

\* C14: after a successful delete_push_client_token(addr, tok) neither
\* registry holds a push subscription of tok under addr, every other
\* subscription is where it was, and the store has no mapping (addr, tok).
C14_DeleteRemovesTokenOnly ==
    [][\A u \in PushUsers, tok \in Tokens :
          (/\ call'.op = "delete_push_client_token"
           /\ call'.args = <<u, tok>>
           /\ call'.result = "ok"
           /\ firebase_raw_push_service)
          => /\ subjects' = [subjects EXCEPT ![u] = WithoutToken(@, tok)]
             /\ messaging' = [messaging EXCEPT ![u] = WithoutToken(@, tok)]
             /\ PushSubscriptions(subjects'[u], tok) = <<>>
             /\ PushSubscriptions(messaging'[u], tok) = <<>>
             /\ <<u, tok>> \notin token_store']_vars

\* C14 witness: a token was deleted from an address that keeps a push
\* subscription of another token and a generic subscription.
C14_Witness ==
    /\ call.op = "delete_push_client_token"
    /\ call.result = "ok"
    /\ firebase_raw_push_service
    /\ PushSubscriptions(subjects[call.args[1]], call.args[2]) = <<>>
    /\ \E i, j \in 1..Len(subjects[call.args[1]]) :
          /\ subjects[call.args[1]][i].client.kind = "push"
          /\ subjects[call.args[1]][j].client.kind = "generic"
    /\ Len(messaging[call.args[1]]) >= 1

\* ----------------------------------------------------- discovery claims

\* C15: a failed pass never ends the discovery loop: whatever a pass raises
\* (file unreadable, malformed entry, failed proxy construction), the loop
\* is never dead, and after every pass, failed or not, a later pass starts.
C15_FailedPassNeverEndsLoop ==
    /\ [](loop_pc # "dead")
    /\ \A b \in {0, 1} : (passes = b) ~> (passes # b)

\* A pass is running after the one before it failed.
C15_Witness ==
    /\ last_pass = "error"
    /\ loop_pc = "loading"
    /\ todo # <<>>

LoopKinds == {"network", "shield", "gateway", "escrow", "exchange", "unw_eth", "factory"}

\* The content declares the well-formed address under the kind.
Declares(addresses, kind, address) ==
    \E i \in 1..Len(load_addresses_calls(addresses)) :
        LET entry == load_addresses_calls(addresses)[i][2]
        IN /\ load_addresses_calls(addresses)[i][1] = kind
           /\ is_address(entry)
           /\ kind = "factory" => is_checksum_address(entry)
           /\ to_checksum_address(entry) = address

\* Callbacks a registered instance of the kind has attached.
ListenersOf(kind) ==
    CASE kind = "network" -> NetworkListeners
      [] kind = "escrow" -> EscrowListeners
      [] kind = "gateway" -> GatewayListeners
      [] OTHER -> <<>>

\* The address is in the kind's registry, with the kind's listeners.
RegisteredWithListeners(kind, address) ==
    /\ address \in Registered(kind)
    /\ kind \in ListenKinds => listeners[<<kind, address>>] = ListenersOf(kind)

\* A pass has just returned without an error.
PassCompleted == loop_pc = "loading" /\ loop_pc' = "sleeping" /\ last_pass' = "ok"

\* C16: a well-formed address that is declared under a kind and stays
\* declared, with the node reachable, is eventually registered under that
\* kind with its listeners; and right after a pass that completed without
\* an error every address declared in the content it read is registered.
C16_DeclaredIsEventuallyRegistered ==
    /\ \A kind \in LoopKinds, address \in ChecksumAddrs :
          <>[](Declares(manifest, kind, address) /\ node_up)
          => <>RegisteredWithListeners(kind, address)
    /\ [][PassCompleted =>
            \A kind \in LoopKinds, address \in ChecksumAddrs :
                Declares(pass_manifest, kind, address)
                => RegisteredWithListeners(kind, address)']_vars

\* The content lists an entry whose registration raises on every pass.
HasFailingEntry(addresses) ==
    \E i \in 1..Len(load_addresses_calls(addresses)) :
        LET kind == load_addresses_calls(addresses)[i][1]
            entry == load_addresses_calls(addresses)[i][2]
        IN \/ ~is_address(entry)
           \/ kind = "factory" /\ ~is_checksum_address(entry)

\* Every well-formed address the content declares is registered.
AllRegistered(addresses) ==
    \A kind \in LoopKinds, address \in ChecksumAddrs :
        Declares(addresses, kind, address) => RegisteredWithListeners(kind, address)

\* C17: an entry whose registration fails does not affect the other
\* entries: when a manifest with a failing entry stays as it is (the node
\* reachable), every other, well-formed address it declares, of the same or
\* of another kind, is eventually registered.
C17_FailingEntryLeavesOthersRegistered ==
    \A addresses \in Manifests :
        HasFailingEntry(addresses)
        => (<>[](manifest = addresses /\ node_up) => <>AllRegistered(addresses))

\* ------------------------------------------------------------- hub claims

\* The deliveries made so far for the publication of the delivery at i,
\* that delivery included.
SamePublication(i) ==
    {j \in 1..i : deliveries[j].id = deliveries[i].id
                  /\ deliveries[j].seq = deliveries[i].seq}

\* The handler of the ledger event is past its seq-th event.
Published(id, seq) ==
    \A k \in DOMAIN handlers :
        handlers[k].busy /\ handlers[k].id = id => handlers[k].seq > seq

\* C18: an event published for a subject is delivered exactly once to each
\* subscriber the subject had when it was published, in the order they
\* subscribed, and to nobody else: the n-th delivery of a publication goes
\* to the n-th subscriber of the event's user, and a finished publication
\* has made as many deliveries as the subject had subscribers.
C18_PublishNotifiesSubscribersInOrder ==
    \A i \in 1..Len(deliveries) :
        LET d == deliveries[i]
            subscribers == d.registry[d.event.user]
            nth == Cardinality(SamePublication(i))
        IN /\ nth <= Len(subscribers)
           /\ d.client = subscribers[nth].client
           /\ Published(d.id, d.seq) =>
                 Cardinality({j \in 1..Len(deliveries) :
                                deliveries[j].id = d.id /\ deliveries[j].seq = d.seq})
                 = Len(subscribers)

\* An event was published to a subject with two subscribers while another
\* subject had other subscribers; both were notified.
C18_Witness ==
    \E i \in 1..Len(deliveries) :
        LET d == deliveries[i]
        IN /\ Cardinality(SamePublication(i)) = 2
           /\ Published(d.id, d.seq)
           /\ d.registry[d.event.user][1].client # d.registry[d.event.user][2].client
           /\ \E u \in PushUsers :
                 /\ u # d.event.user
                 /\ d.registry[u] # <<>>
                 /\ d.registry[u] # d.registry[d.event.user]

\* The handler of the ledger event has returned.
Returned(id) ==
    /\ \E i \in 1..Len(applied) : applied[i].id = id
    /\ \A k \in DOMAIN handlers : ~(handlers[k].busy /\ handlers[k].id = id)

\* The seq-th event of the handler was published and every subscriber its
\* subject had was notified.
PublishedToAll(id, seq) ==
    \E p \in 1..Len(publications) :
        /\ publications[p].id = id
        /\ publications[p].seq = seq
        /\ Cardinality({j \in 1..Len(deliveries) :
                          deliveries[j].id = id /\ deliveries[j].seq = seq})
           = Len(publications[p].registry[publications[p].event.user])

\* The events the handler of the delivery had to publish from the
\* delivery's event on.
RemainingEvents(d) ==
    LET p == CHOOSE p \in 1..Len(publications) :
                 publications[p].id = d.id /\ publications[p].seq = d.seq
    IN d.seq..publications[p].last

\* C19: a failed delivery stops nothing: once the handler has returned,
\* the event of the failed delivery has gone to every subscriber of its
\* subject, and every event the handler had left to publish was published
\* to its subject and went to every subscriber.
C19_FailedDeliveryStopsNothing ==
    \A i \in 1..Len(deliveries) :
        (~deliveries[i].ok /\ Returned(deliveries[i].id))
        => \A seq \in RemainingEvents(deliveries[i]) :
               PublishedToAll(deliveries[i].id, seq)

\* A delivery failed, the handler has returned, and after the failure the
\* same event went to another subscriber and a later event was delivered.
C19_Witness ==
    \E i \in 1..Len(deliveries) :
        /\ ~deliveries[i].ok
        /\ Returned(deliveries[i].id)
        /\ \E j \in (i + 1)..Len(deliveries) :
              /\ deliveries[j].id = deliveries[i].id
              /\ deliveries[j].seq = deliveries[i].seq
              /\ deliveries[j].ok
        /\ \E j \in (i + 1)..Len(deliveries) :
              /\ deliveries[j].id = deliveries[i].id
              /\ deliveries[j].seq > deliveries[i].seq

SnapshotUsers(graph_rep) ==
    {k[1] : k \in DOMAIN graph_rep} \cup {k[2] : k \in DOMAIN graph_rep}

\* The mirror of a network holding nothing but the snapshot.
SnapshotGraph(network_address, graph_rep) ==
    [config |-> NetworkConfig(network_address), edges |-> graph_rep]

\* C21: a full sync replaces the edges and the users of its network by the
\* snapshot's in one step: right after it the mirror is the snapshot,
\* whatever was applied before, every reader (account_sum, users, the
\* derived events) reads what it would read from the snapshot alone, and
\* the mirrors of the other networks are as they were.
C21_FullSyncReplacesMirror ==
    [][(call'.op = "update_community" /\ nevents' = nevents + 1) =>
          LET n == call'.args[1]
              graph_rep == call'.args[2]
              graph == currency_network_graphs'[n]
          IN /\ graph.edges = graph_rep
             /\ users(graph) = SnapshotUsers(graph_rep)
             /\ \A u \in Users : \A v \in (Users \ {u}) \cup {None} :
                   get_account_sum(graph, u, v, now')
                   = get_account_sum(SnapshotGraph(n, graph_rep), u, v, now')
             /\ generate_trustline_events(currency_network_graphs', "0xU1", "0xU2", n, now')
                = generate_trustline_events(
                      (n :> SnapshotGraph(n, graph_rep)), "0xU1", "0xU2", n, now')
             /\ \A m \in network_addresses \ {n} :
                   currency_network_graphs'[m] = currency_network_graphs[m]]_vars

\* A full sync ran after an earlier ledger event and left its mirror with
\* the one edge of its snapshot.
C21_Witness ==
    /\ call.op = "update_community"
    /\ nevents = 2
    /\ DOMAIN call.args[2] = {<<"0xU1", "0xU2">>}
    /\ currency_network_graphs[call.args[1]].edges = call.args[2]

\* C22: account_sum of an edge at a timestamp at or before the edge's last
\* update is the stored balance, with nothing accrued; so the two
\* BalancePosition events derived from a balance update carry the balance
\* the update stored, seen from either side.
C22_NoAccrualAtLastUpdate ==
    /\ \A n \in network_addresses :
          \A k \in DOMAIN currency_network_graphs[n].edges :
             \A t \in 0..currency_network_graphs[n].edges[k].last_update_timestamp :
                /\ get_account_sum(currency_network_graphs[n], k[1], k[2], t)
                   = currency_network_graphs[n].edges[k].balance
                /\ get_account_sum(currency_network_graphs[n], k[2], k[1], t)
                   = -currency_network_graphs[n].edges[k].balance
    /\ (call.op = "process_balance_update" /\ call.result = "ok") =>
          /\ emitted[1].type = "BalanceUpdate"
          /\ emitted[1].value = call.args[1].value
          /\ emitted[2].type = "BalanceUpdate"
          /\ emitted[2].value = -call.args[1].value

\* A balance update was processed after the start for an edge that bears
\* interest, and the mirror holds its balance at its timestamp.
C22_Witness ==
    /\ call.op = "process_balance_update"
    /\ call.result = "ok"
    /\ call.args[1].timestamp >= 1
    /\ LET ev == call.args[1]
           edge == EdgeOf(currency_network_graphs[ev.network_address], ev.from_, ev.to)
       IN /\ edge.interest_rate_given > 0
          /\ edge.interest_rate_received > 0
          /\ edge.last_update_timestamp = ev.timestamp
          /\ edge.balance # 0
          /\ emitted[1].value = ev.value

\* ----------------------------------------------------- selector claims

\* The last call was get_event_selector_for_<kind> with the index off.
SelectorCall(kind) ==
    /\ call.op = "get_event_selector_for_" \o kind
    /\ call.args[2] = FALSE

\* C23: with the event index off, get_event_selector_for_<kind>(a) returns
\* the proxy registered for a under that kind, for shields as for every
\* other kind.
C23_SelectorReturnsRegisteredProxy ==
    \A kind \in SelectorKinds :
        (SelectorCall(kind) /\ call.args[1] \in ProxiesOf(kind))
        => /\ call.result = "ok"
           /\ call.args[3] = Selector(kind, call.args[1])

\* ---------------------------------------------------- handler claims

\* The step handled a ledger event.
Handled == nevents' = nevents + 1

\* C24: a balance update, trustline update or freeze for a network that is
\* not tracked fails for itself only: the handler raises, no graph and no
\* is_frozen flag changes, nothing is published and no subscription
\* changes; and an event of a tracked network handled right after such a
\* failure is handled as ever.
C24_UntrackedNetworkFailsAlone ==
    [][/\ (/\ Handled
           /\ call'.op \in {"process_balance_update", "process_trustline_update",
                            "process_network_freeze"}
           /\ call'.args[1].network_address \notin network_addresses)
          => /\ call'.result = "KeyError"
             /\ emitted' = <<>>
             /\ UNCHANGED <<currency_network_graphs, currency_network_proxies,
                            subjects, messaging, deliveries>>
       /\ (/\ Handled
           /\ call.result = "KeyError"
           /\ call'.op = "process_balance_update"
           /\ call'.args[1].network_address \in network_addresses)
          => /\ call'.result = "ok"
             /\ Len(emitted') = 4
             /\ EdgeOf(currency_network_graphs'[call'.args[1].network_address],
                       call'.args[1].from_, call'.args[1].to).last_update_timestamp
                = call'.args[1].timestamp]_vars

\* A trustline update for an untracked network failed, as the second event
\* handled, while the mirror of a tracked network held an edge.
C24_Witness ==
    /\ call.op = "process_trustline_update"
    /\ call.result = "KeyError"
    /\ call.args[1].network_address \notin network_addresses
    /\ nevents = 2
    /\ emitted = <<>>
    /\ \E n \in network_addresses : DOMAIN currency_network_graphs[n].edges # {}

\* The registry fields other than the network proxies and the mirrors.
OtherRegistries ==
    <<shield_proxies, escrow_proxies, gateway_proxies, exchange_proxies,
      unw_eth_proxies, token_proxies, known_identity_factories, listeners>>

\* C25: a freeze event sets the is_frozen flag of its network and changes
\* nothing else: no mirror, no other network's proxy, no other registry, no
\* subscription, and nothing is published. A balance update or a trustline
\* update for a frozen network is still written to the mirror and still
\* publishes its derived events.
C25_FreezeOnlySetsFlag ==
    [][/\ (Handled /\ call'.op = "process_network_freeze" /\ call'.result = "ok")
          => LET n == call'.args[1].network_address
             IN /\ currency_network_proxies'
                   = [currency_network_proxies EXCEPT ![n].is_frozen = TRUE]
                /\ emitted' = <<>>
                /\ UNCHANGED <<currency_network_graphs, OtherRegistries,
                               subjects, messaging>>
       /\ (/\ Handled
           /\ call'.result = "ok"
           /\ call'.op = "process_balance_update"
           /\ currency_network_proxies[call'.args[1].network_address].is_frozen)
          => LET ev == call'.args[1]
                 edge == ViewFrom(EdgeOf(currency_network_graphs'[ev.network_address],
                                         ev.from_, ev.to), ev.from_, ev.to)
             IN /\ edge.balance = ev.value
                /\ edge.last_update_timestamp = ev.timestamp
                /\ Len(emitted') = 4
                /\ emitted'[1].value = ev.value
                /\ emitted'[2].value = -ev.value
       /\ (/\ Handled
           /\ call'.result = "ok"
           /\ call'.op = "process_trustline_update"
           /\ currency_network_proxies[call'.args[1].network_address].is_frozen)
          => LET ev == call'.args[1]
                 edge == ViewFrom(EdgeOf(currency_network_graphs'[ev.network_address],
                                         ev.from_, ev.to), ev.from_, ev.to)
             IN /\ edge.creditline_given = ev.value.creditline_given
                /\ edge.creditline_received = ev.value.creditline_received
                /\ edge.interest_rate_given = ev.value.interest_rate_given
                /\ edge.interest_rate_received = ev.value.interest_rate_received
                /\ Len(emitted') = 6]_vars

\* A balance update was handled for a network that had been frozen before,
\* and the mirror of that network holds its value.
C25_Witness ==
    /\ call.op = "process_balance_update"
    /\ call.result = "ok"
    /\ nevents = 2
    /\ currency_network_proxies[call.args[1].network_address].is_frozen
    /\ ViewFrom(EdgeOf(currency_network_graphs[call.args[1].network_address],
                       call.args[1].from_, call.args[1].to),
                call.args[1].from_, call.args[1].to).balance = call.args[1].value
    /\ Len(emitted) = 4

\* ----------------------------------------------------- fan-in, no deadline

\* C26: a get_user_events call without a deadline has returned only when
\* every query task has completed or raised; its result then holds the
\* events of every task that completed, each once, and no task's events
\* were left out because it completed after the return.
C26_NoDeadlineWaitsForAll ==
    (/\ pc = "returned"
     /\ query_call.op = "get_user_events"
     /\ ~WithDeadline)
    => /\ \A src \in DOMAIN tasks : tasks[src] \in {"done", "raised"}
       /\ \A src \in DOMAIN tasks :
             tasks[src] = "done" => EventsOf(OutputOf(src)) \subseteq EventsOf(ret)
       /\ EventsOf(ret) = AnsweredEvents
       /\ Len(ret) = Cardinality(AnsweredEvents)

\* A call without a deadline returned the events of two tasks, a third
\* task having raised.
C26_Witness ==
    /\ pc = "returned"
    /\ query_call.op = "get_user_events"
    /\ ~WithDeadline
    /\ \E s1, s2, s3 \in DOMAIN tasks :
          /\ s1 # s2
          /\ tasks[s1] = "done" /\ OutputOf(s1) # <<>>
          /\ tasks[s2] = "done" /\ OutputOf(s2) # <<>>
          /\ tasks[s3] = "raised"
    /\ Len(ret) >= 2

\* ------------------------------------------------- publication claims

\* The handler of an event that changes the mirror has returned.
MirrorUpdated ==
    /\ call.op \in {"process_balance_update", "process_trustline_update"}
    /\ call.result = "ok"

\* The four events derived for the participants of the handled event.
DerivedEvents ==
    generate_trustline_events(currency_network_graphs, call.args[1].from_,
        call.args[1].to, call.args[1].network_address, call.args[1].timestamp)

\* The handled event with its user bound to one participant.
ProjectionFor(user) == [call.args[1] EXCEPT !.user = user]

\* Two published events are the same event: same type, and then same fields.
SameEvent(a, b) == a.type = b.type /\ a = b

\* The event was published once for each participant, next to other events.
RawEventPublished ==
    \E i, j \in DOMAIN emitted :
       /\ i # j
       /\ SameEvent(emitted[i], ProjectionFor(call.args[1].from_))
       /\ SameEvent(emitted[j], ProjectionFor(call.args[1].to))

\* C27 as stated: after a balance update and after a trustline update alike,
\* both participants are sent the event itself, as a per-user projection,
\* and the four derived events besides.
C27_RawEventForEveryMirrorUpdate ==
    MirrorUpdated =>
        /\ RawEventPublished
        /\ Len(emitted) = 6
        /\ \A k \in 1..4 : \E i \in DOMAIN emitted : SameEvent(emitted[i], DerivedEvents[k])

\* C27 amended: a trustline update publishes its two per-user projections
\* followed by the four derived events; a balance update publishes the four
\* derived events and nothing else, the event itself is not published.
C27_RawEventForTrustlineUpdateOnly ==
    /\ (MirrorUpdated /\ call.op = "process_trustline_update") =>
          /\ emitted = <<ProjectionFor(call.args[1].from_),
                         ProjectionFor(call.args[1].to)>> \o DerivedEvents
          /\ RawEventPublished
    /\ (MirrorUpdated /\ call.op = "process_balance_update") =>
          /\ emitted = DerivedEvents
          /\ ~RawEventPublished

\* A trustline update was handled after an earlier event and six events
\* were published, the first two being the update itself.
C27_Witness ==
    /\ MirrorUpdated
    /\ call.op = "process_trustline_update"
    /\ nevents = 2
    /\ Len(emitted) = 6
    /\ emitted[1].type = "TrustlineUpdate" /\ emitted[1].user = call.args[1].from_
    /\ emitted[2].type = "TrustlineUpdate" /\ emitted[2].user = call.args[1].to
    /\ emitted[3].type = "BalanceUpdate"

\* Types of the ledger events that _publish_blockchain_event publishes.
TwoPartyTypes == {"Transfer", "TrustlineUpdate"}

\* The publications and deliveries made for copies of ledger events.
RawPublications ==
    {p \in 1..Len(publications) : publications[p].event.type \in TwoPartyTypes}
RawDeliveries ==
    {i \in 1..Len(deliveries) : deliveries[i].event.type \in TwoPartyTypes}

\* The event is a copy of the ledger event with the user bound to it.
ProjectionOf(event, user) ==
    /\ event.user = user
    /\ SameEvent([event EXCEPT !.user = None],
                 LedgerEvent(event.type, event.network_address))

\* The first copy is for from_ and the second, the last one, for to.
ProjectionsInOrder ==
    \A p \in RawPublications :
        LET event == publications[p].event
        IN /\ publications[p].seq \in {1, 2}
           /\ publications[p].seq = 1 => ProjectionOf(event, event.from_)
           /\ publications[p].seq = 2 => ProjectionOf(event, event.to)

\* A handler that has returned made both publications, each once.
TwoProjections ==
    \A i \in 1..Len(applied) :
        (Returned(applied[i].id) /\ \E p \in RawPublications : publications[p].id = applied[i].id)
        => \A seq \in {1, 2} :
              Cardinality({p \in RawPublications :
                              /\ publications[p].id = applied[i].id
                              /\ publications[p].seq = seq}) = 1

\* A copy goes to subscribers of the subject of its user and to no other.
DeliveredToOwnSubject ==
    \A i \in RawDeliveries :
        LET d == deliveries[i]
            user == IF d.seq = 1 THEN d.event.from_ ELSE d.event.to
        IN /\ d.event.user = user
           /\ \E n \in 1..Len(d.registry[user]) : d.registry[user][n].client = d.client

\* The handler leaves the event it was handed as it was, user unbound.
OriginalUntouched ==
    \A n \in ChecksumAddrs :
        (ledger[n] # <<>> /\ ledger'[n] = Tail(ledger[n]))
        => /\ call'.args[1] = Head(ledger[n]).ev
           /\ call'.args[1].user = None

\* Publishing and delivering change no mirror, and the handler of a
\* transfer changes none either.
PublicationKeepsMirror ==
    (\/ publications' # publications
     \/ deliveries' # deliveries
     \/ (call'.op = "process_transfer" /\ applied' # applied))
    => UNCHANGED currency_network_graphs

StaleUpdateAfterFullSync ==
    /\ Handled
    /\ call.op = "update_community"
    /\ call'.op = "process_balance_update"
    /\ call'.result = "ok"
    /\ call'.args[1].network_address = call.args[1]
    /\ call'.args[1].timestamp < now

\* C29: a balance update older than the sync point of a full sync that is
\* handled after the full sync is discarded: the mirror of the network,
\* so the balance and the last_update_timestamp of the edge, stays as the
\* snapshot left it.
C29_StaleUpdateIsDiscarded ==
    [][StaleUpdateAfterFullSync =>
          currency_network_graphs'[call.args[1]] = currency_network_graphs[call.args[1]]]_vars

\* ------------------------------------------------ unreadable manifests

\* The file has no content or content that is not JSON.
NoContent(addresses) == addresses.status \in {"empty", "not_json"}

\* The step starts a pass.
PassStarts == loop_pc = "sleeping" /\ passes' # passes

\* The step belongs to a pass over a file without usable content.
PassOverNoContent ==
    \/ PassStarts /\ NoContent(manifest)
    \/ loop_pc = "loading" /\ NoContent(pass_manifest) /\ loop_pc' # loop_pc

\* C30: a pass over a file that is empty or is not JSON goes as a pass over
\* a file that declares nothing: it makes no registration call, raises
\* nothing, returns, and leaves every registry as it was. A pass over a file
\* that cannot be opened fails, the registries being as they were.
C30_UnreadableManifestRegistersNothing ==
    [][/\ PassOverNoContent
          => /\ UNCHANGED regVars
             /\ todo' = <<>>
             /\ call'.op = "_load_addresses"
             /\ call'.result \in {"reading", "ok"}
             /\ last_pass' # "error" \/ last_pass = "error"
             /\ loop_pc = "loading" => (loop_pc' = "sleeping" /\ last_pass' = "ok")
       /\ (PassStarts /\ manifest.status = "missing")
          => /\ UNCHANGED regVars
             /\ call'.result = "FileNotFoundError"
             /\ last_pass' = "error"
             /\ loop_pc' = "sleeping"]_vars

\* A pass over a file that is not JSON has returned without error while
\* contracts registered by an earlier pass were in the registries.
C30_Witness ==
    /\ loop_pc = "sleeping"
    /\ pass_manifest.status = "not_json"
    /\ last_pass = "ok"
    /\ call.op = "_load_addresses"
    /\ call.result = "ok"
    /\ network_addresses # {}
    /\ escrow_proxies # EmptyDict

\* ------------------------------------------- interleaving claims

\* C31: registrations of the same network that interleave, one suspended
\* between its membership test and its insertion while another one runs,
\* leave the address with exactly one proxy and one set of listeners.
C31_InterleavedRegistrationStaysSingle ==
    \A a \in network_addresses :
        /\ proxies_created[<<"network", a>>] = 1
        /\ listeners[<<"network", a>>] = NetworkListeners

\* --------------------------------------------- subscriptions and the store

\* The (address, token) pairs that have a push subscription.
SubscribedPairs ==
    {pair \in PushUsers \X Tokens :
        Len(PushSubscriptions(subjects[pair[1]], pair[2])) > 0}

\* C32: with the push service enabled, so after the subscriptions were
\* restored at start, and after any add_push_client_token and
\* delete_push_client_token calls, failed ones included, the pairs with a
\* push subscription are the pairs in the token store.
C32_SubscriptionsMatchStore ==
    firebase_raw_push_service => SubscribedPairs = token_store

\* With the push service enabled a deletion failed for a pair that has
\* neither a subscription nor a stored mapping, while another pair was
\* subscribed and stored.
C32_Witness ==
    /\ firebase_raw_push_service
    /\ call.op = "delete_push_client_token"
    /\ call.result = "TokenNotFoundException"
    /\ token_store # {}
    /\ SubscribedPairs = token_store
    /\ <<call.args[1], call.args[2]>> \notin token_store

\* ------------------------------------------------------ typed queries

\* C33: a get_user_events call for an event type returns events of that
\* type only, whatever kinds of contract are registered.
C33_TypedQueryReturnsOnlyThatType ==
    (/\ pc = "returned"
     /\ query_call.op = "get_user_events"
     /\ query_call.args[2] # None)
    => \A i \in 1..Len(ret) : ret[i].type = query_call.args[2]

\* ------------------------------------------- rejected token, subscribed pair

\* The step is an add_push_client_token call, with the push service
\* enabled, for a pair that has a push subscription and a token the backend
\* rejects at the time of the call.
AddOfSubscribedRejected ==
    /\ call'.op = "add_push_client_token"
    /\ firebase_raw_push_service
    /\ Len(PushSubscriptions(subjects[call'.args[1]], call'.args[2])) > 0
    /\ ~check_client_token(call'.args[2])

\* C34: the token is validated before the existing subscription is looked
\* for: add_push_client_token for a subscribed pair whose token the backend
\* rejects fails with InvalidClientToken; the subscription, every other
\* subscription and the token store stay as they were.
C34_RejectedTokenFailsThoughSubscribed ==
    [][AddOfSubscribedRejected =>
          /\ call'.result = "InvalidClientTokenException"
          /\ UNCHANGED <<subjects, messaging, token_store>>]_vars

\* add_push_client_token failed for a rejected token whose pair is still
\* subscribed and stored.
C34_Witness ==
    /\ call.op = "add_push_client_token"
    /\ call.result = "InvalidClientTokenException"
    /\ call.args[3] = TRUE
    /\ Len(PushSubscriptions(subjects[call.args[1]], call.args[2])) = 1
    /\ <<call.args[1], call.args[2]>> \in token_store
    /\ call.args[2] \notin valid_tokens

\* ------------------------------------------------ proxies and mirrors

\* Every callback of _start_listen_network is attached to the network.
ListenersAttached(address) ==
    \A i \in 1..Len(NetworkListeners) : Listening(address, NetworkListeners[i])

\* C35: in every state, also after a registration that failed, the
\* addresses that have a currency-network proxy are the addresses that have
\* a graph mirror, and each of them has its network listeners attached.
C35_ProxiesMatchMirrors ==
    /\ DOMAIN currency_network_proxies = DOMAIN currency_network_graphs
    /\ \A a \in DOMAIN currency_network_proxies : ListenersAttached(a)
    /\ \A a \in Addrs \ DOMAIN currency_network_proxies :
          listeners[<<"network", a>>] = <<>>

\* The registration of a network failed at the node, in a pass that had
\* registered another network before.
C35_Witness ==
    /\ call.op = "new_network"
    /\ call.result = "ConnectionError"
    /\ last_pass = "error"
    /\ call.args[1] \notin network_addresses
    /\ network_addresses # {}
    /\ DOMAIN currency_network_graphs = network_addresses

\* ------------------------------------------------- the registry grows

\* Every key of the dictionary is kept, with the value it had.
Kept(before, after) ==
    \A a \in DOMAIN before : a \in DOMAIN after /\ after[a] = before[a]

\* The list is continued, nothing in it is dropped or moved.
Continued(before, after) ==
    Len(before) <= Len(after) /\ SubSeq(after, 1, Len(before)) = before

\* The step is not the callback of a ledger event.
NoLedgerEvent == nevents' = nevents

\* No step removes a registered address of any kind or gives it another
\* proxy or other listeners; only the callback of a ledger event changes
\* the state of a graph.
RegistryGrows ==
    /\ Kept(currency_network_proxies, currency_network_proxies')
    /\ Kept(shield_proxies, shield_proxies')
    /\ Kept(escrow_proxies, escrow_proxies')
    /\ Kept(gateway_proxies, gateway_proxies')
    /\ Kept(exchange_proxies, exchange_proxies')
    /\ Kept(unw_eth_proxies, unw_eth_proxies')
    /\ Kept(token_proxies, token_proxies')
    /\ Continued(known_identity_factories, known_identity_factories')
    /\ \A kind \in ListenKinds, a \in Addrs :
          a \in Registered(kind) => listeners'[<<kind, a>>] = listeners[<<kind, a>>]
    /\ \A a \in DOMAIN currency_network_graphs : a \in DOMAIN currency_network_graphs'
    /\ NoLedgerEvent => Kept(currency_network_graphs, currency_network_graphs')

\* The address is registered and the content read by the pass does not
\* declare it.
Undeclared(kind, address) ==
    address \in Registered(kind) /\ ~Declares(pass_manifest, kind, address)

\* C36: the registry only grows. No operation removes a registered address
\* or replaces its proxy, its graph or its listeners; so an address that is
\* no longer in the addresses file is registered after every later pass as
\* it was before it, with the same proxy, graph state and listeners.
C36_RegistryOnlyGrows ==
    [][RegistryGrows]_vars

\* A pass over a file that no longer declares a registered network has
\* returned, and the network still has the trustline its graph was given.
C36_Witness ==
    /\ loop_pc = "sleeping"
    /\ last_pass = "ok"
    /\ call.op = "_load_addresses"
    /\ call.result = "ok"
    /\ \E a \in network_addresses :
          /\ Undeclared("network", a)
          /\ DOMAIN currency_network_graphs[a].edges # {}
          /\ ListenersAttached(a)

====
